---- MODULE Spec2Model ----
(***************************************************************************)
(* A model of the ciao controller datastore (package datastore): the       *)
(* in-memory cache tables, the write-through to the persistent store and   *)
(* the allocators.  Every facade method is one action unless a claim is    *)
(* about its interleavings, in which case the method is split at its lock  *)
(* acquisitions.  Persistent-store calls succeed or fail                   *)
(* nondeterministically.                                                   *)
(***************************************************************************)
EXTENDS Integers, Sequences, FiniteSets, TLC

\* ------------------------------------------------------------------------
\* Identifiers and bounds
\* ------------------------------------------------------------------------

TenantIDs == {"t1", "t2"}
NodeIDs == {"n1", "n2"}
InstanceIDs == {"i1"}

\* The goroutines that call the facade concurrently.
Procs == {"c1", "c2"}

\* The table locks of the Datastore.
Locks ==
    {"workloads", "tenants", "instances", "nodes", "blockDevices", "attachments",
     "pools", "images", "instanceLastStat", "nodeLastStat", "tenantUsage"}

\* The empty string: an instance without a node, a stat without a tenant.
NoID == ""

\* payloads.Pending, Running, Exited, Missing
Pending == "pending"
Running == "active"
Exited == "exited"
Missing == "missing"

\* The states a node agent reports for an instance in a stats payload.
StatStates == {Running, Exited}

\* Longest list of instance stats in one stats payload.
MaxStats == 1

\* Most failures one node counts in one run.
MaxFailures == 2

\* An instance's private address as AddInstance receives it: an offset in
\* the tenant address space, or a string net.ParseIP rejects.
BadIP == -1

VARIABLES
    tenants,            \* ds.tenants: id -> tenant record
    instances,          \* ds.instances: id -> instance record
    instanceLastStat,   \* ds.instanceLastStat: id -> last stat record
    nodes,              \* ds.nodes: id -> node record
    nodeLastStat,       \* ds.nodeLastStat: node id -> last node stat
    everAdded,          \* instance ids handed to AddInstance so far (uuids are fresh)
    blockDevices,       \* ds.blockDevices: id -> volume record
    attachments,        \* ds.attachments: id -> attachment record
    instanceVolumes,    \* ds.instanceVolumes: <<instance, volume>> -> attachment id
    nextAttachment,     \* the next id uuid.Generate returns for an attachment
    dbTenants,          \* persistent store: tenant id -> SubnetBits
    dbAttachments,      \* persistent store: the attachment rows
    pools,              \* ds.pools: id -> pool record
    externalSubnets,    \* ds.externalSubnets: the CIDR strings registered
    externalIPs,        \* ds.externalIPs: the individual addresses registered
    mappedIPs,          \* ds.mappedIPs: address -> mapping record
    dbFailures,         \* persistent-store calls of the pool methods that failed so far
    calls,              \* the AllocateTenantIPPool calls in progress, by caller
    held,               \* tenant id -> addresses callers were given and have not released
    lockW,              \* table lock -> the caller holding it for writing, or NoID
    lockR,              \* table lock -> the callers holding it for reading
    prog,               \* caller -> its facade call and the lock steps it has still to take
    tenantUsage,        \* ds.tenantUsage: tenant id -> usage history, oldest first
    now,                \* the clock time.Now reads, in minutes
    workloads,          \* ds.workloads: id -> workload record
    publicWorkloads,    \* ds.publicWorkloads: the ids of the public workloads, in order
    dbWorkloads,        \* persistent store: the workload rows
    images,             \* ds.images: id -> image record
    publicImages,       \* ds.publicImages: the ids of the public images, in order
    internalImages,     \* ds.internalImages: the ids of the internal images, in order
    dbImages,           \* persistent store: the ids of the image rows
    panicked,           \* the process died on a nil dereference
    last                \* the facade call that returned last, with its result

instVars == <<instances, instanceLastStat, nodes, nodeLastStat, everAdded>>

attVars == <<blockDevices, attachments, instanceVolumes, nextAttachment, dbAttachments>>

poolVars == <<pools, externalSubnets, externalIPs, mappedIPs>>

ipVars == <<calls, held>>

lockVars == <<lockW, lockR, prog>>

usageVars == <<tenantUsage, now>>

workloadVars == <<workloads, publicWorkloads, dbWorkloads>>

imageVars == <<images, publicImages, internalImages, dbImages>>

\* The tables the instance and volume methods never touch.
restVars == <<poolVars, dbFailures, ipVars, lockVars, usageVars, workloadVars, imageVars>>

vars == <<tenants, dbTenants, instVars, attVars, restVars, panicked, last>>

\* ------------------------------------------------------------------------
\* Helpers on maps
\* ------------------------------------------------------------------------

\* delete(m, k)
MapDelete(m, k) == [x \in (DOMAIN m) \ {k} |-> m[x]]

\* m[k] = v
MapPut(m, k, v) == [x \in (DOMAIN m) \cup {k} |-> IF x = k THEN v ELSE m[x]]

\* A tenant as db.getTenant returns it for a new tenant.
NewTenant(bits) ==
    [SubnetBits |-> bits,
     network |-> << >>,
     instances |-> {},
     devices |-> << >>,
     workloads |-> << >>,
     images |-> << >>]

\* A caller that is not inside AllocateTenantIPPool.
IdleCall == [pc |-> "idle", t |-> NoID, bits |-> 0, num |-> 0, addrs |-> << >>]

\* A caller that is not inside a facade call.
NoProg == [op |-> NoID, steps |-> << >>]

\* A node as AddNode and addNodeStat create it.
NewNode ==
    [instances |-> {}, TotalFailures |-> 0, StartFailures |-> 0]

Returned(op, arg, err) == [op |-> op, arg |-> arg, err |-> err]

\* ------------------------------------------------------------------------
\* Instance lifecycle
\* ------------------------------------------------------------------------

\* AddNode: insert an empty node unless it is already cached.
AddNode(n) ==
    /\ ~panicked
    /\ nodes' = IF n \in DOMAIN nodes THEN nodes ELSE MapPut(nodes, n, NewNode)
    /\ last' = Returned("AddNode", n, FALSE)
    /\ UNCHANGED <<tenants, dbTenants, restVars, instances, instanceLastStat, nodeLastStat,
                   everAdded, attVars, panicked>>

\* The tenant link AddInstance makes: only when the tenant is cached.
LinkTenantInstance(tn, t, i) ==
    IF t \in DOMAIN tn
    THEN [tn EXCEPT ![t].instances = @ \cup {i}]
    ELSE tn

\* AddInstance: persist, then insert into instances, seed instanceLastStat
\* and link into the tenant's map.  The node's map is not touched.
AddInstance(i, t, n, st, cnci, ip, w, dbOK) ==
    /\ ~panicked
    /\ i \notin everAdded
    /\ everAdded' = everAdded \cup {i}
    /\ IF dbOK
       THEN /\ instances' = MapPut(instances, i,
                    [TenantID |-> t, NodeID |-> n, State |-> st,
                     CNCI |-> cnci, IPAddress |-> ip, WorkloadID |-> w])
            /\ instanceLastStat' = MapPut(instanceLastStat, i,
                    [TenantID |-> t, NodeID |-> n, Status |-> st, VCPUUsage |-> 0])
            /\ tenants' = LinkTenantInstance(tenants, t, i)
       ELSE UNCHANGED <<instances, instanceLastStat, tenants>>
    /\ last' = Returned("AddInstance", i, ~dbOK)
    /\ UNCHANGED <<dbTenants, restVars, nodes, nodeLastStat, attVars, panicked>>

\* ------------------------------------------------------------------------
\* Tenant private addresses (the part instance deletion uses)
\* ------------------------------------------------------------------------

RECURSIVE Pow2(_)
Pow2(n) == IF n = 0 THEN 1 ELSE 2 * Pow2(n - 1)

\* hostInt & subMask for an address given as an offset in the tenant space.
SubnetOf(a, bits) == a - (a % Pow2(32 - bits))

\* The cache part of ReleaseTenantIP: drop the host, and the subnet entry
\* when its host map is left empty.
ReleaseNetwork(net, bits, a) ==
    LET sub == SubnetOf(a, bits)
        hosts == IF sub \in DOMAIN net THEN net[sub] \ {a} ELSE {}
    IN  IF hosts = {} THEN MapDelete(net, sub) ELSE [net EXCEPT ![sub] = hosts]

\* GetTenant: the cache first, the persistent store next.
TenantKnown(tn, t) == t \in DOMAIN tn \/ t \in DOMAIN dbTenants

TenantBits(tn, t) == IF t \in DOMAIN tn THEN tn[t].SubnetBits ELSE dbTenants[t]

\* ReleaseTenantIP returns before touching the cache: unparsable address
\* or unknown tenant.
ReleaseRejected(tn, t, ip) == ip = BadIP \/ ~TenantKnown(tn, t)

\* The tenants table after ReleaseTenantIP(t, ip).
ReleaseTenantIPCache(tn, t, ip) ==
    IF ReleaseRejected(tn, t, ip) \/ t \notin DOMAIN tn
    THEN tn
    ELSE [tn EXCEPT ![t].network = ReleaseNetwork(@, TenantBits(tn, t), ip)]

\* ------------------------------------------------------------------------
\* Volumes and attachments
\* ------------------------------------------------------------------------

VolumeIDs == {"v1", "v2"}

\* Most attachment ids uuid.Generate hands out in one run.
MaxAttachments == 2

Available == "available"
InUse == "in-use"

Range(f) == {f[x] : x \in DOMAIN f}

\* The attachments updateStorageAttachments visits for an instance: it
\* ranges over the values of instanceVolumes, not over attachments.
IndexedAttachments(i) ==
    {id \in Range(instanceVolumes) :
        id \in DOMAIN attachments /\ attachments[id].InstanceID = i}

\* Those whose volume GetBlockDevice finds; the others are skipped.
CascadedAttachments(i) ==
    {id \in IndexedAttachments(i) : attachments[id].BlockID \in DOMAIN blockDevices}

CascadedVolumes(i) == {attachments[id].BlockID : id \in CascadedAttachments(i)}

\* AddBlockDevice dereferences ds.tenants[device.TenantID] without a check.
CascadePanics(tn, i, updOK) ==
    \E v \in CascadedVolumes(i) \cap updOK : blockDevices[v].TenantID \notin DOMAIN tn

\* updateStorageAttachments: the volumes whose persistent update succeeded
\* go back to Available, in blockDevices and in the tenant's devices.
CascadeBlockDevices(i, updOK) ==
    [v \in DOMAIN blockDevices |->
        IF v \in CascadedVolumes(i) \cap updOK
        THEN [blockDevices[v] EXCEPT !.State = Available]
        ELSE blockDevices[v]]

CascadeTenants(tn, i, updOK) ==
    [t \in DOMAIN tn |->
        [tn[t] EXCEPT !.devices =
            LET mine == {v \in CascadedVolumes(i) \cap updOK : blockDevices[v].TenantID = t}
            IN  [v \in (DOMAIN @) \cup mine |->
                    IF v \in mine THEN Available ELSE @[v]]]]

CascadeAttachments(i) ==
    [id \in (DOMAIN attachments) \ CascadedAttachments(i) |-> attachments[id]]

CascadeInstanceVolumes(i) ==
    [k \in {x \in DOMAIN instanceVolumes :
                \A id \in CascadedAttachments(i) :
                    x # <<attachments[id].InstanceID, attachments[id].BlockID>>}
        |-> instanceVolumes[k]]

CascadeDB(i, delOK) == dbAttachments \ (CascadedAttachments(i) \cap delOK)

\* ------------------------------------------------------------------------
\* Instance deletion and state transitions
\* ------------------------------------------------------------------------

UnlinkTenantInstance(tn, t, i) ==
    IF t \in DOMAIN tn
    THEN [tn EXCEPT ![t].instances = @ \ {i}]
    ELSE tn

\* deleteInstance unlinks the instance from the node its NodeID names only.
UnlinkNodeInstance(nd, n, i) ==
    IF n = NoID THEN nd ELSE [nd EXCEPT ![n].instances = @ \ {i}]

\* deleteInstance dereferences ds.nodes[i.NodeID] without a check.
UnlinkPanics(nd, n) == n # NoID /\ n \notin DOMAIN nd

\* The error deleteInstance returns after its first persistent delete
\* succeeded: the second persistent delete's.  A ReleaseTenantIP error is
\* wrapped with errors.Wrapf(err, ...) where err is nil, which yields nil.
deleteInstanceErr(db2OK, relFailed) == ~db2OK

\* What DeleteInstance does to the tables of instances, tenants, nodes and
\* volumes: GetInstance, deleteInstance and the event log entry.
DeleteInstanceTables(i, db1OK, db2OK, relOK, updOK, delOK, logOK) ==
    /\ ~panicked
    /\ IF i \notin DOMAIN instances \/ ~db1OK
       THEN /\ last' = Returned("DeleteInstance", i, TRUE)
            /\ UNCHANGED <<tenants, instVars, attVars, panicked>>
       ELSE LET inst == instances[i]
                tn1 == UnlinkTenantInstance(tenants, inst.TenantID, i)
                tn2 == IF inst.CNCI THEN tn1
                       ELSE ReleaseTenantIPCache(tn1, inst.TenantID, inst.IPAddress)
                relFailed == ~inst.CNCI /\
                    (ReleaseRejected(tn1, inst.TenantID, inst.IPAddress) \/ ~relOK)
                err == deleteInstanceErr(db2OK, relFailed)
            IN  IF UnlinkPanics(nodes, inst.NodeID) \/ CascadePanics(tn2, i, updOK)
                THEN /\ panicked' = TRUE
                     /\ UNCHANGED <<tenants, instVars, attVars, last>>
                ELSE /\ instanceLastStat' = MapDelete(instanceLastStat, i)
                     /\ instances' = MapDelete(instances, i)
                     /\ nodes' = UnlinkNodeInstance(nodes, inst.NodeID, i)
                     /\ tenants' = CascadeTenants(tn2, i, updOK)
                     /\ blockDevices' = CascadeBlockDevices(i, updOK)
                     /\ attachments' = CascadeAttachments(i)
                     /\ instanceVolumes' = CascadeInstanceVolumes(i)
                     /\ dbAttachments' = CascadeDB(i, delOK)
                     /\ last' = Returned("DeleteInstance", i, err \/ ~logOK)
                     /\ UNCHANGED <<nodeLastStat, everAdded, nextAttachment, panicked>>

\* DeleteInstance as one step.
DeleteInstance(i, db1OK, db2OK, relOK, updOK, delOK, logOK) ==
    /\ DeleteInstanceTables(i, db1OK, db2OK, relOK, updOK, delOK, logOK)
    /\ UNCHANGED <<dbTenants, restVars>>

\* The result of a StartFailure call: the event log entry was written
\* ("ok"), refused by the store ("failed") or never attempted ("none").
StartFailureReturned(i, n, fatal, migration, err, logged) ==
    [op |-> "StartFailure", arg |-> <<i, n>>, fatal |-> fatal, migration |-> migration,
     err |-> err, logged |-> logged]

\* StartFailure(instanceID, reason, migration, nodeID): GetInstance; when
\* the reason is fatal and this is no migration, deleteInstance, whose
\* error ends the call; then the failure counters of the node nodeID names,
\* when it is cached, and the event log entry.  The state of the instance
\* is not looked at.
StartFailure(i, fatal, migration, n, db1OK, db2OK, relOK, updOK, delOK, logOK) ==
    LET count(nd) ==
            IF n \in DOMAIN nd
            THEN [nd EXCEPT ![n].TotalFailures = @ + 1, ![n].StartFailures = @ + 1]
            ELSE nd
        logged == IF logOK THEN "ok" ELSE "failed"
    IN
    /\ ~panicked
    /\ n \in DOMAIN nodes => nodes[n].TotalFailures < MaxFailures
    /\ IF i \notin DOMAIN instances
       THEN /\ last' = StartFailureReturned(i, n, fatal, migration, TRUE, "none")
            /\ UNCHANGED <<tenants, instVars, attVars, panicked>>
       ELSE IF ~(fatal /\ ~migration)
       THEN /\ nodes' = count(nodes)
            /\ last' = StartFailureReturned(i, n, fatal, migration, ~logOK, logged)
            /\ UNCHANGED <<tenants, instances, instanceLastStat, nodeLastStat, everAdded,
                           attVars, panicked>>
       ELSE IF ~db1OK
       THEN /\ last' = StartFailureReturned(i, n, fatal, migration, TRUE, "none")
            /\ UNCHANGED <<tenants, instVars, attVars, panicked>>
       ELSE LET inst == instances[i]
                tn1 == UnlinkTenantInstance(tenants, inst.TenantID, i)
                tn2 == IF inst.CNCI THEN tn1
                       ELSE ReleaseTenantIPCache(tn1, inst.TenantID, inst.IPAddress)
                relFailed == ~inst.CNCI /\
                    (ReleaseRejected(tn1, inst.TenantID, inst.IPAddress) \/ ~relOK)
                err == deleteInstanceErr(db2OK, relFailed)
                nd1 == UnlinkNodeInstance(nodes, inst.NodeID, i)
            IN  IF UnlinkPanics(nodes, inst.NodeID) \/ CascadePanics(tn2, i, updOK)
                THEN /\ panicked' = TRUE
                     /\ UNCHANGED <<tenants, instVars, attVars, last>>
                ELSE /\ instanceLastStat' = MapDelete(instanceLastStat, i)
                     /\ instances' = MapDelete(instances, i)
                     /\ tenants' = CascadeTenants(tn2, i, updOK)
                     /\ blockDevices' = CascadeBlockDevices(i, updOK)
                     /\ attachments' = CascadeAttachments(i)
                     /\ instanceVolumes' = CascadeInstanceVolumes(i)
                     /\ dbAttachments' = CascadeDB(i, delOK)
                     /\ IF err
                        THEN /\ nodes' = nd1
                             /\ last' = StartFailureReturned(i, n, fatal, migration,
                                                             TRUE, "none")
                        ELSE /\ nodes' = count(nd1)
                             /\ last' = StartFailureReturned(i, n, fatal, migration,
                                                             ~logOK, logged)
                     /\ UNCHANGED <<nodeLastStat, everAdded, nextAttachment, panicked>>
    /\ UNCHANGED <<dbTenants, restVars>>

\* updateInstanceStatus: the last stat is replaced by one that carries the
\* id and the status only.
updateInstanceStatus(ls, i, status) ==
    MapPut(ls, i, [TenantID |-> NoID, NodeID |-> NoID, Status |-> status, VCPUUsage |-> 0])

\* InstanceRestarting: state Pending, node unchanged.
InstanceRestarting(i, dbOK) ==
    /\ ~panicked
    /\ IF ~dbOK
       THEN /\ last' = Returned("InstanceRestarting", i, TRUE)
            /\ UNCHANGED <<instVars, panicked>>
       ELSE IF i \notin DOMAIN instances
       THEN /\ panicked' = TRUE
            /\ UNCHANGED <<instVars, last>>
       ELSE /\ instanceLastStat' = updateInstanceStatus(instanceLastStat, i, Pending)
            /\ instances' = [instances EXCEPT ![i].State = Pending]
            /\ last' = Returned("InstanceRestarting", i, FALSE)
            /\ UNCHANGED <<nodes, nodeLastStat, everAdded, panicked>>
    /\ UNCHANGED <<tenants, dbTenants, restVars, attVars>>

\* InstanceStopped: state Exited, NodeID cleared, unlinked from the old node.
InstanceStopped(i, dbOK) ==
    /\ ~panicked
    /\ IF ~dbOK
       THEN /\ last' = Returned("InstanceStopped", i, TRUE)
            /\ UNCHANGED <<instVars, panicked>>
       ELSE IF i \notin DOMAIN instances \/ UnlinkPanics(nodes, instances[i].NodeID)
       THEN /\ panicked' = TRUE
            /\ UNCHANGED <<instVars, last>>
       ELSE /\ instanceLastStat' = updateInstanceStatus(instanceLastStat, i, Exited)
            /\ instances' = [instances EXCEPT ![i].State = Exited, ![i].NodeID = NoID]
            /\ nodes' = UnlinkNodeInstance(nodes, instances[i].NodeID, i)
            /\ last' = Returned("InstanceStopped", i, FALSE)
            /\ UNCHANGED <<nodeLastStat, everAdded, panicked>>
    /\ UNCHANGED <<tenants, dbTenants, restVars, attVars>>

\* Instance.TransitionInstanceState(Missing) as DeleteNode uses it.
TransitionInstanceState(inst, st) == [inst EXCEPT !.State = st]

\* DeleteNode: the instances in the node's map go Missing with no node;
\* the node and its last stat are removed.
DeleteNode(n) ==
    /\ ~panicked
    /\ IF n \notin DOMAIN nodes
       THEN /\ panicked' = TRUE
            /\ UNCHANGED <<instVars, last>>
       ELSE /\ instances' =
                [i \in DOMAIN instances |->
                    IF i \in nodes[n].instances
                    THEN [TransitionInstanceState(instances[i], Missing)
                            EXCEPT !.NodeID = NoID]
                    ELSE instances[i]]
            /\ nodes' = MapDelete(nodes, n)
            /\ nodeLastStat' = MapDelete(nodeLastStat, n)
            /\ last' = Returned("DeleteNode", n, FALSE)
            /\ UNCHANGED <<instanceLastStat, everAdded, panicked>>
    /\ UNCHANGED <<tenants, dbTenants, restVars, attVars>>

\* ------------------------------------------------------------------------
\* Stats
\* ------------------------------------------------------------------------

\* addNodeStat: upsert the node, refresh its last stat with the node's
\* failure counters.
addNodeStatNodes(nd, n) == IF n \in DOMAIN nd THEN nd ELSE MapPut(nd, n, NewNode)

addNodeStatLast(nls, nd, n) ==
    MapPut(nls, n, [TotalFailures |-> addNodeStatNodes(nd, n)[n].TotalFailures,
                    StartFailures |-> addNodeStatNodes(nd, n)[n].StartFailures])

\* tenantUsagePeriodMinutes
UsagePeriod == 5

\* A sample taken as reported.
reduceToZeroNot(v) == v

reduceToZero(v) == IF v < 0 THEN 0 ELSE v

\* updateTenantUsage writing the delta instead of the last entry plus the
\* delta.
updateTenantUsageDelta(tu, time, delta, t) ==
    LET tenantUsage1 == IF t \in DOMAIN tu THEN tu[t] ELSE << >>
    IN  IF delta = 0 THEN tu
        ELSE IF tenantUsage1 = << >>
                \/ ~(time - tenantUsage1[Len(tenantUsage1)].Timestamp < UsagePeriod)
        THEN MapPut(tu, t, Append(tenantUsage1, [Timestamp |-> time, VCPU |-> delta]))
        ELSE MapPut(tu, t, [tenantUsage1 EXCEPT ![Len(tenantUsage1)].VCPU = delta])

\* updateTenantUsage appending an entry on every call.
updateTenantUsageAppend(tu, time, delta, t) ==
    LET tenantUsage1 == IF t \in DOMAIN tu THEN tu[t] ELSE << >>
        lastVCPU == IF tenantUsage1 # << >> THEN tenantUsage1[Len(tenantUsage1)].VCPU ELSE 0
    IN  IF delta = 0 THEN tu
        ELSE MapPut(tu, t, Append(tenantUsage1,
                                  [Timestamp |-> time, VCPU |-> lastVCPU + delta]))

\* updateTenantUsage on the history table tu at clock time: nothing for a
\* zero delta; otherwise the last entry plus the delta, appended with the
\* time of the call when there is no last entry or it is UsagePeriod
\* minutes old, and written over the last entry with that entry's timestamp
\* when it is younger.  A sample carries a CPU usage only, so the Memory and
\* Disk deltas are zero.
updateTenantUsage(tu, time, delta, t) ==
    LET tenantUsage1 == IF t \in DOMAIN tu THEN tu[t] ELSE << >>
        lastUsage == IF tenantUsage1 # << >>
                     THEN tenantUsage1[Len(tenantUsage1)]
                     ELSE [Timestamp |-> 0, VCPU |-> 0]
        createNewUsage == \/ tenantUsage1 = << >>
                          \/ ~(time - lastUsage.Timestamp < UsagePeriod)
        newVCPU == lastUsage.VCPU + delta
    IN  IF delta = 0 THEN tu
        ELSE IF createNewUsage
        THEN MapPut(tu, t, Append(tenantUsage1, [Timestamp |-> time, VCPU |-> newVCPU]))
        ELSE MapPut(tu, t, [tenantUsage1 EXCEPT ![Len(tenantUsage1)] =
                                [Timestamp |-> lastUsage.Timestamp, VCPU |-> newVCPU]])

\* One sample <<instance, state, cpu>> of addInstanceStats on the state
\* s = [ls, inst, nd, tu, panic].  An instance without a last stat reads as
\* the zero stat: no tenant, no usage.
addInstanceStat(s, n, stat) ==
    LET i == stat[1]
        prevTenant == IF i \in DOMAIN s.ls THEN s.ls[i].TenantID ELSE NoID
        prevVCPU == IF i \in DOMAIN s.ls THEN s.ls[i].VCPUUsage ELSE 0
        VCPUUsage == reduceToZero(stat[3])
        tu2 == updateTenantUsage(s.tu, now, VCPUUsage - prevVCPU, prevTenant)
        ls2 == MapPut(s.ls, i, [TenantID |-> prevTenant, NodeID |-> n, Status |-> stat[2],
                                VCPUUsage |-> VCPUUsage])
    IN  IF s.panic THEN s
        ELSE IF i \notin DOMAIN s.inst
        THEN [s EXCEPT !.ls = ls2, !.tu = tu2]
        ELSE IF n \notin DOMAIN s.nd
        THEN [s EXCEPT !.panic = TRUE]
        ELSE [ls |-> ls2,
              inst |-> [s.inst EXCEPT ![i].State = stat[2], ![i].NodeID = n],
              nd |-> [s.nd EXCEPT ![n].instances = @ \cup {i}],
              tu |-> tu2,
              panic |-> FALSE]

RECURSIVE addInstanceStats(_, _, _)
addInstanceStats(s, n, stats) ==
    IF stats = << >> THEN s
    ELSE addInstanceStats(addInstanceStat(s, n, Head(stats)), n, Tail(stats))

\* The stats payloads of the lifecycle specifications report no CPU usage.
StatLists == UNION {[1..k -> InstanceIDs \X StatStates \X {0}] : k \in 0..MaxStats}

\* HandleStats: addNodeStat unless the payload's load is -1, then
\* addInstanceStats.
HandleStats(n, withLoad, stats, nodeStatOK, instStatOK) ==
    /\ ~panicked
    /\ LET nd1 == IF withLoad THEN addNodeStatNodes(nodes, n) ELSE nodes
           nls1 == IF withLoad THEN addNodeStatLast(nodeLastStat, nodes, n) ELSE nodeLastStat
           s == addInstanceStats(
                    [ls |-> instanceLastStat, inst |-> instances, nd |-> nd1,
                     tu |-> tenantUsage, panic |-> FALSE],
                    n, stats)
       IN  IF withLoad /\ ~nodeStatOK
           THEN /\ nodes' = nd1
                /\ nodeLastStat' = nls1
                /\ last' = Returned("HandleStats", n, TRUE)
                /\ UNCHANGED <<instances, instanceLastStat, tenantUsage, panicked>>
           ELSE IF s.panic
           THEN /\ panicked' = TRUE
                /\ UNCHANGED <<instances, instanceLastStat, nodes, nodeLastStat, tenantUsage,
                               last>>
           ELSE /\ nodes' = s.nd
                /\ nodeLastStat' = nls1
                /\ instances' = s.inst
                /\ instanceLastStat' = s.ls
                /\ tenantUsage' = s.tu
                /\ last' = Returned("HandleStats", n, ~instStatOK)
                /\ UNCHANGED panicked
    /\ UNCHANGED <<tenants, dbTenants, poolVars, dbFailures, ipVars, lockVars, now,
                   workloadVars, imageVars, everAdded, attVars>>

\* ------------------------------------------------------------------------
\* Specification of the instance lifecycle
\* ------------------------------------------------------------------------

Init ==
    /\ tenants = [t \in {"t1"} |-> NewTenant(29)]
    /\ dbTenants = [t \in {"t1"} |-> 29]
    /\ blockDevices = << >>
    /\ attachments = << >>
    /\ instanceVolumes = << >>
    /\ nextAttachment = 1
    /\ dbAttachments = {}
    /\ instances = << >>
    /\ instanceLastStat = << >>
    /\ nodes = << >>
    /\ nodeLastStat = << >>
    /\ everAdded = {}
    /\ pools = << >>
    /\ externalSubnets = {}
    /\ externalIPs = {}
    /\ mappedIPs = << >>
    /\ dbFailures = 0
    /\ calls = [c \in Procs |-> IdleCall]
    /\ held = [t \in TenantIDs |-> {}]
    /\ lockW = [l \in Locks |-> NoID]
    /\ lockR = [l \in Locks |-> {}]
    /\ prog = [c \in Procs |-> NoProg]
    /\ tenantUsage = << >>
    /\ now = 0
    /\ workloads = << >>
    /\ publicWorkloads = << >>
    /\ dbWorkloads = {}
    /\ images = << >>
    /\ publicImages = << >>
    /\ internalImages = << >>
    /\ dbImages = {}
    /\ panicked = FALSE
    /\ last = Returned("Init", NoID, FALSE)

Next ==
    \/ \E n \in NodeIDs : AddNode(n)
    \/ \E i \in InstanceIDs, t \in {"t1"}, n \in NodeIDs \cup {NoID}, dbOK \in BOOLEAN :
            AddInstance(i, t, n, Pending, FALSE, 2, "w1", dbOK)
    \/ \E n \in NodeIDs, withLoad \in BOOLEAN, stats \in StatLists,
          nodeStatOK \in BOOLEAN, instStatOK \in BOOLEAN :
            HandleStats(n, withLoad, stats, nodeStatOK, instStatOK)
    \/ \E i \in InstanceIDs, dbOK \in BOOLEAN : InstanceRestarting(i, dbOK)
    \/ \E i \in InstanceIDs, dbOK \in BOOLEAN : InstanceStopped(i, dbOK)
    \/ \E n \in NodeIDs : DeleteNode(n)
    \/ \E i \in InstanceIDs, db1OK \in BOOLEAN, db2OK \in BOOLEAN, relOK \in BOOLEAN,
          logOK \in BOOLEAN :
            DeleteInstance(i, db1OK, db2OK, relOK, {}, {}, logOK)

Spec == Init /\ [][Next]_vars

\* The instance lifecycle under start failures.
NextStart ==
    \/ \E n \in NodeIDs : AddNode(n)
    \/ \E i \in InstanceIDs : AddInstance(i, "t1", NoID, Pending, FALSE, 2, "w1", TRUE)
    \/ \E n \in NodeIDs, stats \in StatLists : HandleStats(n, TRUE, stats, TRUE, TRUE)
    \/ \E i \in InstanceIDs : InstanceStopped(i, TRUE)
    \/ \E i \in InstanceIDs, fatal \in BOOLEAN, migration \in BOOLEAN, n \in NodeIDs,
          db1OK \in BOOLEAN, db2OK \in BOOLEAN, logOK \in BOOLEAN :
            StartFailure(i, fatal, migration, n, db1OK, db2OK, TRUE, {}, {}, logOK)

SpecStart == Init /\ [][NextStart]_vars

\* ------------------------------------------------------------------------
\* Claims on the instance lifecycle
\* ------------------------------------------------------------------------

\* C1: every instance in the instances table is in the instances map of
\* its tenant and, when its NodeID is not empty, in the instances map of
\* that node.
C1_InstanceLinked ==
    ~panicked =>
        \A i \in DOMAIN instances :
            /\ instances[i].TenantID \in DOMAIN tenants
            /\ i \in tenants[instances[i].TenantID].instances
            /\ instances[i].NodeID # NoID =>
                    /\ instances[i].NodeID \in DOMAIN nodes
                    /\ i \in nodes[instances[i].NodeID].instances

\* ------------------------------------------------------------------------
\* Volume and attachment operations
\* ------------------------------------------------------------------------

\* The instances the volume operations act on.
AttachInstanceIDs == {"i1", "i2"}

\* The cache writes of AddBlockDevice(device).
AddBlockDeviceCache(bds, v, t, st) == MapPut(bds, v, [TenantID |-> t, State |-> st])

AddBlockDeviceTenants(tn, v, t, st) == [tn EXCEPT ![t].devices = MapPut(@, v, st)]

\* AddBlockDevice: persist (add or update), then blockDevices, then the
\* tenant's devices.
AddBlockDevice(v, t, st, dbOK) ==
    /\ ~panicked
    /\ IF ~dbOK
       THEN /\ last' = Returned("AddBlockDevice", v, TRUE)
            /\ UNCHANGED <<tenants, blockDevices, panicked>>
       ELSE IF t \notin DOMAIN tenants
       THEN /\ panicked' = TRUE
            /\ UNCHANGED <<tenants, blockDevices, last>>
       ELSE /\ blockDevices' = AddBlockDeviceCache(blockDevices, v, t, st)
            /\ tenants' = AddBlockDeviceTenants(tenants, v, t, st)
            /\ last' = Returned("AddBlockDevice", v, FALSE)
            /\ UNCHANGED panicked
    /\ UNCHANGED <<dbTenants, restVars, instVars, attachments, instanceVolumes, nextAttachment,
                   dbAttachments>>

\* DeleteBlockDevice: persist the deletion, then drop the volume from
\* blockDevices and from its tenant's devices.  Attachments are not looked at.
DeleteBlockDevice(v, dbOK) ==
    /\ ~panicked
    /\ IF v \notin DOMAIN blockDevices \/ ~dbOK
       THEN /\ last' = Returned("DeleteBlockDevice", v, TRUE)
            /\ UNCHANGED <<tenants, blockDevices, panicked>>
       ELSE IF blockDevices[v].TenantID \notin DOMAIN tenants
       THEN /\ panicked' = TRUE
            /\ UNCHANGED <<tenants, blockDevices, last>>
       ELSE /\ blockDevices' = MapDelete(blockDevices, v)
            /\ tenants' = [tenants EXCEPT ![blockDevices[v].TenantID].devices =
                                MapDelete(@, v)]
            /\ last' = Returned("DeleteBlockDevice", v, FALSE)
            /\ UNCHANGED panicked
    /\ UNCHANGED <<dbTenants, restVars, instVars, attachments, instanceVolumes, nextAttachment,
                   dbAttachments>>

\* The cache commit of CreateStorageAttachment: the attachment under its
\* fresh id, and the index entry of the pair pointing at it.
CommitAttachment(atts, id, i, v) == MapPut(atts, id, [InstanceID |-> i, BlockID |-> v])

CommitInstanceVolume(iv, id, i, v) == MapPut(iv, <<i, v>>, id)

\* CreateStorageAttachment: persist the attachment, mark the volume InUse
\* (persistently, then in the caches), then insert into attachments and
\* instanceVolumes.  A failure after the first write deletes the row again;
\* that delete's own failure is ignored.
CreateStorageAttachment(i, v, addOK, updOK, compOK) ==
    /\ ~panicked
    /\ nextAttachment <= MaxAttachments
    /\ nextAttachment' = nextAttachment + 1
    /\ LET id == nextAttachment
       IN  IF ~addOK
           THEN /\ last' = Returned("CreateStorageAttachment", id, TRUE)
                /\ UNCHANGED <<tenants, blockDevices, attachments, instanceVolumes,
                               dbAttachments, panicked>>
           ELSE IF v \notin DOMAIN blockDevices \/ ~updOK
           THEN /\ dbAttachments' = IF compOK THEN dbAttachments \ {id}
                                    ELSE dbAttachments \cup {id}
                /\ last' = Returned("CreateStorageAttachment", id, TRUE)
                /\ UNCHANGED <<tenants, blockDevices, attachments, instanceVolumes, panicked>>
           ELSE IF blockDevices[v].TenantID \notin DOMAIN tenants
           THEN /\ panicked' = TRUE
                /\ UNCHANGED <<tenants, blockDevices, attachments, instanceVolumes,
                               dbAttachments, last>>
           ELSE /\ dbAttachments' = dbAttachments \cup {id}
                /\ blockDevices' = AddBlockDeviceCache(blockDevices, v,
                                        blockDevices[v].TenantID, InUse)
                /\ tenants' = AddBlockDeviceTenants(tenants, v,
                                        blockDevices[v].TenantID, InUse)
                /\ attachments' = CommitAttachment(attachments, id, i, v)
                /\ instanceVolumes' = CommitInstanceVolume(instanceVolumes, id, i, v)
                /\ last' = Returned("CreateStorageAttachment", id, FALSE)
                /\ UNCHANGED panicked
    /\ UNCHANGED <<dbTenants, restVars, instVars>>

\* DeleteStorageAttachment: persist the deletion, then drop the attachment
\* and the index entry of its pair.  The volume is left as it is.
DeleteStorageAttachment(id, dbOK) ==
    /\ ~panicked
    /\ IF ~dbOK
       THEN /\ last' = Returned("DeleteStorageAttachment", id, TRUE)
            /\ UNCHANGED <<attachments, instanceVolumes, dbAttachments>>
       ELSE /\ dbAttachments' = dbAttachments \ {id}
            /\ IF id \in DOMAIN attachments
               THEN /\ attachments' = MapDelete(attachments, id)
                    /\ instanceVolumes' = MapDelete(instanceVolumes,
                            <<attachments[id].InstanceID, attachments[id].BlockID>>)
                    /\ last' = Returned("DeleteStorageAttachment", id, FALSE)
               ELSE /\ last' = Returned("DeleteStorageAttachment", id, TRUE)
                    /\ UNCHANGED <<attachments, instanceVolumes>>
    /\ UNCHANGED <<tenants, dbTenants, restVars, instVars, blockDevices, nextAttachment, panicked>>

\* AttachVolumeFailure: the volume goes back to Available, then the
\* instance's node counts the failure and the event is logged.
AttachVolumeFailure(i, v, updOK, logOK) ==
    /\ ~panicked
    /\ IF v \notin DOMAIN blockDevices \/ ~updOK
       THEN /\ last' = Returned("AttachVolumeFailure", v, TRUE)
            /\ UNCHANGED <<tenants, blockDevices, nodes, panicked>>
       ELSE IF blockDevices[v].TenantID \notin DOMAIN tenants
       THEN /\ panicked' = TRUE
            /\ UNCHANGED <<tenants, blockDevices, nodes, last>>
       ELSE /\ blockDevices' = AddBlockDeviceCache(blockDevices, v,
                                    blockDevices[v].TenantID, Available)
            /\ tenants' = AddBlockDeviceTenants(tenants, v,
                                    blockDevices[v].TenantID, Available)
            /\ IF i \notin DOMAIN instances
               THEN /\ last' = Returned("AttachVolumeFailure", v, TRUE)
                    /\ UNCHANGED nodes
               ELSE /\ instances[i].NodeID \in DOMAIN nodes =>
                            nodes[instances[i].NodeID].TotalFailures < MaxFailures
                    /\ nodes' = IF instances[i].NodeID \in DOMAIN nodes
                                THEN [nodes EXCEPT
                                        ![instances[i].NodeID].TotalFailures = @ + 1]
                                ELSE nodes
                    /\ last' = Returned("AttachVolumeFailure", v, ~logOK)
            /\ UNCHANGED panicked
    /\ UNCHANGED <<dbTenants, restVars, instances, instanceLastStat, nodeLastStat, everAdded,
                   attachments, instanceVolumes, nextAttachment, dbAttachments>>

NextAttach ==
    \/ \E i \in AttachInstanceIDs : AddInstance(i, "t1", NoID, Pending, FALSE, 2, "w1", TRUE)
    \/ \E v \in VolumeIDs \ DOMAIN blockDevices, dbOK \in BOOLEAN :
            AddBlockDevice(v, "t1", Available, dbOK)
    \/ \E v \in VolumeIDs, dbOK \in BOOLEAN : DeleteBlockDevice(v, dbOK)
    \/ \E i \in AttachInstanceIDs, v \in VolumeIDs, addOK \in BOOLEAN, updOK \in BOOLEAN,
          compOK \in BOOLEAN :
            CreateStorageAttachment(i, v, addOK, updOK, compOK)
    \/ \E id \in 1..MaxAttachments, dbOK \in BOOLEAN : DeleteStorageAttachment(id, dbOK)
    \/ \E i \in AttachInstanceIDs, v \in VolumeIDs, updOK \in BOOLEAN, logOK \in BOOLEAN :
            AttachVolumeFailure(i, v, updOK, logOK)
    \/ \E i \in AttachInstanceIDs, db1OK \in BOOLEAN, db2OK \in BOOLEAN, logOK \in BOOLEAN :
          \E updOK \in SUBSET CascadedVolumes(i), delOK \in SUBSET CascadedAttachments(i) :
            DeleteInstance(i, db1OK, db2OK, TRUE, updOK, delOK, logOK)

SpecAttach == Init /\ [][NextAttach]_vars

\* ------------------------------------------------------------------------
\* Claims on volumes and attachments
\* ------------------------------------------------------------------------

\* C4: there is at most one attachment per (instance, volume) pair, and the
\* index entry of every attachment's pair names that attachment.
C4_OneAttachmentPerPair ==
    ~panicked =>
        /\ \A a, b \in DOMAIN attachments :
                attachments[a] = attachments[b] => a = b
        /\ \A a \in DOMAIN attachments :
                /\ <<attachments[a].InstanceID, attachments[a].BlockID>>
                        \in DOMAIN instanceVolumes
                /\ instanceVolumes[<<attachments[a].InstanceID, attachments[a].BlockID>>] = a

\* C5: the volume of every attachment in the cache exists and is InUse.
C5_AttachedVolumeInUse ==
    ~panicked =>
        \A a \in DOMAIN attachments :
            /\ attachments[a].BlockID \in DOMAIN blockDevices
            /\ blockDevices[attachments[a].BlockID].State = InUse

\* ------------------------------------------------------------------------
\* External IP pools
\* ------------------------------------------------------------------------

PoolIDs == {"p1"}

\* External addresses are written as offsets from 10.0.0.0, and the CIDR
\* string "10.0.0.a/n" as <<a, n>>.  A string net.ParseCIDR rejects:
BadCIDR == <<-1, -1>>

\* The CIDR strings callers pass: two disjoint /30 and the /29 covering both.
CIDRs == {<<0, 30>>, <<4, 30>>, <<0, 29>>}

\* A /31, which has no host address between network and broadcast.
SmallCIDRs == {<<0, 31>>}

\* The individual addresses callers pass: one inside the subnets above and
\* one outside all of them.
ExtIPs == {1, 8}

\* Longest subnet list and longest address list of a pool or a request.
MaxPoolItems == 2

\* Most addresses mapped at one time.
MaxMapped == 2

\* net.ParseCIDR: the network of a CIDR string (its address masked).
ParseCIDR(c) == [IP |-> c[1] - (c[1] % Pow2(32 - c[2])), ones |-> c[2]]

\* net.IPNet.Contains
Contains(ipNet, ip) == ip >= ipNet.IP /\ ip < ipNet.IP + Pow2(32 - ipNet.ones)

\* (1 << (bits-ones)) - 2
SubnetIPs(c) == Pow2(32 - c[2]) - 2

isDuplicateSubnet(extSubnets, new) ==
    \E s \in extSubnets :
        Contains(ParseCIDR(s), new.IP) \/ Contains(new, ParseCIDR(s).IP)

isDuplicateIP(extSubnets, extIPs, new) ==
    \/ \E s \in extSubnets : Contains(ParseCIDR(s), new)
    \/ new \in extIPs

Failed(op, arg, kind) == [op |-> op, arg |-> arg, err |-> TRUE, kind |-> kind]

SeqsUpTo(S, n) == UNION {[1..k -> S] : k \in 0..n}

RECURSIVE SumIPs(_)
SumIPs(subnets) ==
    IF subnets = << >> THEN 0
    ELSE (IF Head(subnets) = BadCIDR THEN 0 ELSE SubnetIPs(Head(subnets)))
            + SumIPs(Tail(subnets))

\* The pool a caller hands to AddPool: its totals count the usable
\* addresses of its subnets and its individual addresses, all free.
MakePool(subnets, ips) ==
    [Subnets |-> subnets, IPs |-> ips,
     TotalIPs |-> SumIPs(subnets) + Len(ips),
     Free |-> SumIPs(subnets) + Len(ips)]

\* The subnet loop of AddPool: each subnet is registered as soon as it has
\* been validated; the loop stops at the first one that fails.
RECURSIVE AddPoolSubnets(_, _)
AddPoolSubnets(subnets, ext) ==
    IF subnets = << >> THEN [ext |-> ext, kind |-> ""]
    ELSE IF Head(subnets) = BadCIDR THEN [ext |-> ext, kind |-> "ParseCIDR"]
    ELSE IF isDuplicateSubnet(ext, ParseCIDR(Head(subnets)))
    THEN [ext |-> ext, kind |-> "DuplicateSubnet"]
    ELSE AddPoolSubnets(Tail(subnets), ext \cup {Head(subnets)})

\* The address loop of AddPool: every address is checked against the
\* registered subnets and addresses; none is registered before the loop ends.
RECURSIVE AddPoolIPs(_)
AddPoolIPs(ips) ==
    IF ips = << >> THEN ""
    ELSE IF Head(ips) = BadIP THEN "InvalidIP"
    ELSE IF isDuplicateIP(externalSubnets, externalIPs, Head(ips)) THEN "DuplicateIP"
    ELSE AddPoolIPs(Tail(ips))

\* AddPool: validate the subnets, or else (only when there is no subnet)
\* the addresses; store the pool; persist it; when persisting fails, undo
\* through DeletePool.
AddPool(p, pool, dbOK) ==
    LET sub == AddPoolSubnets(pool.Subnets, externalSubnets)
        ipKind == AddPoolIPs(pool.IPs)
        withSubnets == Len(pool.Subnets) > 0
        withIPs == ~withSubnets /\ Len(pool.IPs) > 0
        ext1 == IF withSubnets THEN sub.ext ELSE externalSubnets
        ips1 == IF withIPs THEN externalIPs \cup Range(pool.IPs) ELSE externalIPs
    IN
    /\ ~panicked
    /\ IF withSubnets /\ sub.kind # ""
       THEN /\ externalSubnets' = sub.ext
            /\ last' = Failed("AddPool", p, sub.kind)
            /\ UNCHANGED <<pools, externalIPs>>
       ELSE IF withIPs /\ ipKind # ""
       THEN /\ last' = Failed("AddPool", p, ipKind)
            /\ UNCHANGED <<pools, externalSubnets, externalIPs>>
       ELSE IF dbOK
       THEN /\ pools' = MapPut(pools, p, pool)
            /\ externalSubnets' = ext1
            /\ externalIPs' = ips1
            /\ last' = Returned("AddPool", p, FALSE)
       ELSE IF pool.Free # pool.TotalIPs
       THEN /\ pools' = MapPut(pools, p, pool)
            /\ externalSubnets' = ext1
            /\ externalIPs' = ips1
            /\ last' = Failed("AddPool", p, "db")
       ELSE /\ pools' = MapDelete(pools, p)
            /\ externalSubnets' = ext1 \ Range(pool.Subnets)
            /\ externalIPs' = ips1 \ Range(pool.IPs)
            /\ last' = Failed("AddPool", p, "db")
    /\ UNCHANGED <<tenants, dbTenants, instVars, attVars, ipVars, lockVars, usageVars, workloadVars, imageVars, mappedIPs, panicked>>

\* DeletePool: refuse a missing pool and a pool in use; then drop the pool,
\* its subnets and its addresses from the cache, whatever the persistent
\* store answered.
DeletePool(p, dbOK) ==
    /\ ~panicked
    /\ IF p \notin DOMAIN pools
       THEN /\ last' = Failed("DeletePool", p, "PoolNotFound")
            /\ UNCHANGED <<pools, externalSubnets, externalIPs>>
       ELSE IF pools[p].Free # pools[p].TotalIPs
       THEN /\ last' = Failed("DeletePool", p, "PoolNotEmpty")
            /\ UNCHANGED <<pools, externalSubnets, externalIPs>>
       ELSE /\ externalSubnets' = externalSubnets \ Range(pools[p].Subnets)
            /\ externalIPs' = externalIPs \ Range(pools[p].IPs)
            /\ pools' = MapDelete(pools, p)
            /\ last' = IF dbOK THEN Returned("DeletePool", p, FALSE)
                       ELSE Failed("DeletePool", p, "db")
    /\ UNCHANGED <<tenants, dbTenants, instVars, attVars, ipVars, lockVars, usageVars, workloadVars, imageVars, mappedIPs, panicked>>

\* AddExternalSubnet: parse, look the pool up, refuse an overlap with a
\* registered subnet and a subnet without usable addresses, persist, commit.
AddExternalSubnet(p, c, dbOK) ==
    LET kind == IF c = BadCIDR THEN "ParseCIDR"
                ELSE IF p \notin DOMAIN pools THEN "PoolNotFound"
                ELSE IF isDuplicateSubnet(externalSubnets, ParseCIDR(c))
                THEN "DuplicateSubnet"
                ELSE IF SubnetIPs(c) <= 0 THEN "SubnetTooSmall"
                ELSE IF ~dbOK THEN "db"
                ELSE ""
    IN
    /\ ~panicked
    /\ IF kind # ""
       THEN /\ last' = Failed("AddExternalSubnet", p, kind)
            /\ UNCHANGED <<pools, externalSubnets>>
       ELSE /\ pools' = [pools EXCEPT ![p] =
                            [@ EXCEPT !.TotalIPs = @ + SubnetIPs(c),
                                      !.Free = @ + SubnetIPs(c),
                                      !.Subnets = Append(@, c)]]
            /\ externalSubnets' = externalSubnets \cup {c}
            /\ last' = Returned("AddExternalSubnet", p, FALSE)
    /\ UNCHANGED <<tenants, dbTenants, instVars, attVars, ipVars, lockVars, usageVars, workloadVars, imageVars, externalIPs, mappedIPs,
                   panicked>>

\* The empty string where an address is expected.
EmptyIP == -2

\* sort.Strings
RECURSIVE SortIPs(_)
SortIPs(ips) ==
    IF ips = << >> THEN << >>
    ELSE LET k == CHOOSE j \in DOMAIN ips : \A i \in DOMAIN ips : ips[j] <= ips[i]
         IN <<ips[k]>> \o SortIPs(SubSeq(ips, 1, k - 1) \o SubSeq(ips, k + 1, Len(ips)))

\* The loop of AddExternalIPs over the sorted list.
RECURSIVE AddExternalIPsKind(_, _)
AddExternalIPsKind(ips, lastIP) ==
    IF ips = << >> THEN ""
    ELSE IF Head(ips) = lastIP THEN "DuplicateIP"
    ELSE IF Head(ips) = BadIP THEN "InvalidIP"
    ELSE IF isDuplicateIP(externalSubnets, externalIPs, Head(ips)) THEN "DuplicateIP"
    ELSE AddExternalIPsKind(Tail(ips), Head(ips))

\* AddExternalIPs: look the pool up, sort, validate every address, persist,
\* then register the addresses and store the pool.
AddExternalIPs(p, ips, dbOK) ==
    LET kind == IF p \notin DOMAIN pools THEN "PoolNotFound"
                ELSE IF AddExternalIPsKind(SortIPs(ips), EmptyIP) # ""
                THEN AddExternalIPsKind(SortIPs(ips), EmptyIP)
                ELSE IF ~dbOK THEN "db"
                ELSE ""
    IN
    /\ ~panicked
    /\ IF kind # ""
       THEN /\ last' = Failed("AddExternalIPs", p, kind)
            /\ UNCHANGED <<pools, externalIPs>>
       ELSE /\ pools' = [pools EXCEPT ![p] =
                            [@ EXCEPT !.TotalIPs = @ + Len(ips),
                                      !.Free = @ + Len(ips),
                                      !.IPs = @ \o SortIPs(ips)]]
            /\ externalIPs' = externalIPs \cup Range(pools[p].IPs) \cup Range(ips)
            /\ last' = Returned("AddExternalIPs", p, FALSE)
    /\ UNCHANGED <<tenants, dbTenants, instVars, attVars, ipVars, lockVars, usageVars, workloadVars, imageVars, externalSubnets, mappedIPs,
                   panicked>>

\* append(s[:k], s[k+1:]...) as the new, shorter slice sees it
RemoveAt(s, k) == SubSeq(s, 1, k - 1) \o SubSeq(s, k + 1, Len(s))

\* the same append as the old slice header, which shares the array and
\* keeps its length, sees it
ShiftedAt(s, k) ==
    [j \in 1..Len(s) |-> IF j < k \/ j = Len(s) THEN s[j] ELSE s[j + 1]]

Min(S) == CHOOSE x \in S : \A y \in S : x <= y

\* DeleteSubnet: find the subnet, refuse it when one of its addresses is
\* mapped, take it out of the pool, persist, commit.
DeleteSubnet(p, subnetID, dbOK) ==
    /\ ~panicked
    /\ IF p \notin DOMAIN pools
       THEN /\ last' = Failed("DeleteSubnet", p, "PoolNotFound")
            /\ UNCHANGED <<pools, externalSubnets>>
       ELSE LET ks == {k \in 1..Len(pools[p].Subnets) : pools[p].Subnets[k] = subnetID}
            IN
            IF ks = {}
            THEN /\ last' = Failed("DeleteSubnet", p, "InvalidPoolAddress")
                 /\ UNCHANGED <<pools, externalSubnets>>
            ELSE IF \E a \in DOMAIN mappedIPs : Contains(ParseCIDR(subnetID), a)
            THEN /\ last' = Failed("DeleteSubnet", p, "PoolNotEmpty")
                 /\ UNCHANGED <<pools, externalSubnets>>
            ELSE IF ~dbOK
            THEN /\ pools' = [pools EXCEPT ![p].Subnets = ShiftedAt(@, Min(ks))]
                 /\ last' = Failed("DeleteSubnet", p, "db")
                 /\ UNCHANGED externalSubnets
            ELSE /\ pools' = [pools EXCEPT ![p] =
                                [@ EXCEPT !.TotalIPs = @ - SubnetIPs(subnetID),
                                          !.Free = @ - SubnetIPs(subnetID),
                                          !.Subnets = RemoveAt(@, Min(ks))]]
                 /\ externalSubnets' = externalSubnets \ {subnetID}
                 /\ last' = Returned("DeleteSubnet", p, FALSE)
    /\ UNCHANGED <<tenants, dbTenants, instVars, attVars, ipVars, lockVars, usageVars, workloadVars, imageVars, externalIPs, mappedIPs,
                   panicked>>

\* DeleteExternalIP: find the address, refuse it when it is mapped, take it
\* out of the pool, persist, commit.
DeleteExternalIP(p, addrID, dbOK) ==
    /\ ~panicked
    /\ IF p \notin DOMAIN pools
       THEN /\ last' = Failed("DeleteExternalIP", p, "PoolNotFound")
            /\ UNCHANGED <<pools, externalIPs>>
       ELSE LET ks == {k \in 1..Len(pools[p].IPs) : pools[p].IPs[k] = addrID}
            IN
            IF ks = {}
            THEN /\ last' = Failed("DeleteExternalIP", p, "InvalidPoolAddress")
                 /\ UNCHANGED <<pools, externalIPs>>
            ELSE IF addrID \in DOMAIN mappedIPs
            THEN /\ last' = Failed("DeleteExternalIP", p, "PoolNotEmpty")
                 /\ UNCHANGED <<pools, externalIPs>>
            ELSE IF ~dbOK
            THEN /\ pools' = [pools EXCEPT ![p].IPs = ShiftedAt(@, Min(ks))]
                 /\ last' = Failed("DeleteExternalIP", p, "db")
                 /\ UNCHANGED externalIPs
            ELSE /\ pools' = [pools EXCEPT ![p] =
                                [@ EXCEPT !.TotalIPs = @ - 1,
                                          !.Free = @ - 1,
                                          !.IPs = RemoveAt(@, Min(ks))]]
                 /\ externalIPs' = externalIPs \ {addrID}
                 /\ last' = Returned("DeleteExternalIP", p, FALSE)
    /\ UNCHANGED <<tenants, dbTenants, instVars, attVars, ipVars, lockVars, usageVars, workloadVars, imageVars, externalSubnets, mappedIPs,
                   panicked>>

\* The addresses MapExternalIP tries for one subnet list, in order: from the
\* address after the network address to the last address the subnet contains.
RECURSIVE SubnetCandidates(_)
SubnetCandidates(subnets) ==
    IF subnets = << >> THEN << >>
    ELSE LET ipNet == ParseCIDR(Head(subnets))
         IN [k \in 1..(Pow2(32 - ipNet.ones) - 1) |-> ipNet.IP + k]
                \o SubnetCandidates(Tail(subnets))

\* Subnet addresses first, then the individual addresses.
Candidates(pool) == SubnetCandidates(pool.Subnets) \o pool.IPs

\* MapExternalIP: the instance must exist, the pool must exist and report a
\* free address; the first unmapped candidate is persisted and entered into
\* mappedIPs, then the pool with Free decremented is persisted and stored.
MapExternalIP(p, i, addOK, updOK) ==
    /\ ~panicked
    /\ IF i \notin DOMAIN instances
       THEN /\ last' = Failed("MapExternalIP", p, "InstanceNotFound")
            /\ UNCHANGED <<pools, mappedIPs>>
       ELSE IF p \notin DOMAIN pools
       THEN /\ last' = Failed("MapExternalIP", p, "PoolNotFound")
            /\ UNCHANGED <<pools, mappedIPs>>
       ELSE LET c == Candidates(pools[p])
                free == {k \in 1..Len(c) : c[k] \notin DOMAIN mappedIPs}
            IN
            IF pools[p].Free = 0 \/ free = {}
            THEN /\ last' = Failed("MapExternalIP", p, "PoolEmpty")
                 /\ UNCHANGED <<pools, mappedIPs>>
            ELSE IF ~addOK
            THEN /\ last' = Failed("MapExternalIP", p, "db")
                 /\ UNCHANGED <<pools, mappedIPs>>
            ELSE /\ mappedIPs' = MapPut(mappedIPs, c[Min(free)],
                                        [PoolID |-> p, InstanceID |-> i])
                 /\ IF updOK
                    THEN /\ pools' = [pools EXCEPT ![p].Free = @ - 1]
                         /\ last' = Returned("MapExternalIP", c[Min(free)], FALSE)
                    ELSE /\ last' = Failed("MapExternalIP", p, "db")
                         /\ UNCHANGED pools
    /\ UNCHANGED <<tenants, dbTenants, instVars, attVars, ipVars, lockVars, usageVars, workloadVars, imageVars, externalSubnets,
                   externalIPs, panicked>>

\* UnMapExternalIP: the mapping and its pool must exist; the mapping is
\* deleted from the persistent store and from mappedIPs, then the pool with
\* Free incremented is persisted and stored.
UnMapExternalIP(a, delOK, updOK) ==
    /\ ~panicked
    /\ IF a \notin DOMAIN mappedIPs
       THEN /\ last' = Failed("UnMapExternalIP", a, "AddressNotFound")
            /\ UNCHANGED <<pools, mappedIPs>>
       ELSE IF mappedIPs[a].PoolID \notin DOMAIN pools
       THEN /\ last' = Failed("UnMapExternalIP", a, "PoolNotFound")
            /\ UNCHANGED <<pools, mappedIPs>>
       ELSE IF ~delOK
       THEN /\ last' = Failed("UnMapExternalIP", a, "db")
            /\ UNCHANGED <<pools, mappedIPs>>
       ELSE /\ mappedIPs' = MapDelete(mappedIPs, a)
            /\ IF updOK
               THEN /\ pools' = [pools EXCEPT ![mappedIPs[a].PoolID].Free = @ + 1]
                    /\ last' = Returned("UnMapExternalIP", a, FALSE)
               ELSE /\ last' = Failed("UnMapExternalIP", a, "db")
                    /\ UNCHANGED pools
    /\ UNCHANGED <<tenants, dbTenants, instVars, attVars, ipVars, lockVars, usageVars, workloadVars, imageVars, externalSubnets,
                   externalIPs, panicked>>

\* ------------------------------------------------------------------------
\* Specification of the external IP pools
\* ------------------------------------------------------------------------

\* The persistent store fails at most MaxDbFailures calls of the pool methods.
MaxDbFailures == 1

StoreAnswers(ok) ==
    /\ ok \/ dbFailures < MaxDbFailures
    /\ dbFailures' = IF ok THEN dbFailures ELSE dbFailures + 1

NextPool ==
    \/ \E i \in InstanceIDs : AddInstance(i, "t1", NoID, Pending, FALSE, 2, "w1", TRUE)
    \/ \E p \in PoolIDs \ DOMAIN pools, dbOK \in BOOLEAN :
       \E subnets \in SeqsUpTo(CIDRs \cup {BadCIDR}, MaxPoolItems),
          ips \in SeqsUpTo(ExtIPs \cup {BadIP}, MaxPoolItems) :
            /\ subnets # << >> => BadIP \notin Range(ips)
            /\ StoreAnswers(dbOK)
            /\ AddPool(p, MakePool(subnets, ips), dbOK)
    \/ \E p \in PoolIDs, dbOK \in BOOLEAN :
            /\ StoreAnswers(dbOK)
            /\ DeletePool(p, dbOK)
    \/ \E p \in PoolIDs, c \in CIDRs \cup SmallCIDRs \cup {BadCIDR}, dbOK \in BOOLEAN :
            /\ p \in DOMAIN pools => Len(pools[p].Subnets) < MaxPoolItems
            /\ StoreAnswers(dbOK)
            /\ AddExternalSubnet(p, c, dbOK)
    \/ \E p \in PoolIDs, dbOK \in BOOLEAN :
       \E ips \in SeqsUpTo(ExtIPs \cup {BadIP}, MaxPoolItems) :
            /\ p \in DOMAIN pools => Len(pools[p].IPs) + Len(ips) <= MaxPoolItems
            /\ StoreAnswers(dbOK)
            /\ AddExternalIPs(p, ips, dbOK)
    \/ \E p \in PoolIDs, c \in CIDRs, dbOK \in BOOLEAN :
            /\ StoreAnswers(dbOK)
            /\ DeleteSubnet(p, c, dbOK)
    \/ \E p \in PoolIDs, a \in ExtIPs, dbOK \in BOOLEAN :
            /\ StoreAnswers(dbOK)
            /\ DeleteExternalIP(p, a, dbOK)
    \/ \E p \in PoolIDs, i \in InstanceIDs, addOK \in BOOLEAN, updOK \in BOOLEAN :
            /\ Cardinality(DOMAIN mappedIPs) < MaxMapped
            /\ StoreAnswers(addOK /\ updOK)
            /\ MapExternalIP(p, i, addOK, updOK)
    \/ \E a \in DOMAIN mappedIPs, delOK \in BOOLEAN, updOK \in BOOLEAN :
            /\ StoreAnswers(delOK /\ updOK)
            /\ UnMapExternalIP(a, delOK, updOK)

SpecPool == Init /\ [][NextPool]_vars

\* ------------------------------------------------------------------------
\* Claims on the external IP pools
\* ------------------------------------------------------------------------

\* The mappings that draw from pool p.
MappedFrom(p) == {a \in DOMAIN mappedIPs : mappedIPs[a].PoolID = p}

\* C2: in every state, for every pool, Free equals TotalIPs minus the
\* number of mapped addresses drawn from the pool, hence lies between 0 and
\* TotalIPs; no mapping is visible while its pool's Free is not decremented.
C2_FreeMatchesMappings ==
    \A p \in DOMAIN pools :
        /\ pools[p].Free = pools[p].TotalIPs - Cardinality(MappedFrom(p))
        /\ 0 <= pools[p].Free
        /\ pools[p].Free <= pools[p].TotalIPs

\* The subnet entries and the address entries the pools hold, by position.
SubnetSlots ==
    UNION {{<<p, k>> : k \in 1..Len(pools[p].Subnets)} : p \in DOMAIN pools}

IPSlots ==
    UNION {{<<p, k>> : k \in 1..Len(pools[p].IPs)} : p \in DOMAIN pools}

SlotSubnet(s) == ParseCIDR(pools[s[1]].Subnets[s[2]])

SlotIP(s) == pools[s[1]].IPs[s[2]]

\* C3: no two subnets held by the pools overlap, no individual address of
\* a pool lies inside a subnet of a pool, and no address is held twice.
C3_NoOverlap ==
    /\ \A s \in SubnetSlots, t \in SubnetSlots :
            s # t => /\ ~Contains(SlotSubnet(s), SlotSubnet(t).IP)
                     /\ ~Contains(SlotSubnet(t), SlotSubnet(s).IP)
    /\ \A a \in IPSlots, s \in SubnetSlots : ~Contains(SlotSubnet(s), SlotIP(a))
    /\ \A a \in IPSlots, b \in IPSlots : a # b => SlotIP(a) # SlotIP(b)

\* ------------------------------------------------------------------------
\* Tenants
\* ------------------------------------------------------------------------

\* The SubnetBits values callers create and patch tenants with.
PatchBits == {29, 30}

\* AddTenant: refuse a cached id, persist the tenant, read it back and
\* cache what was read.
AddTenant(t, bits, addOK, getOK) ==
    /\ ~panicked
    /\ IF t \in DOMAIN tenants
       THEN /\ last' = Failed("AddTenant", t, "Duplicate")
            /\ UNCHANGED <<tenants, dbTenants>>
       ELSE IF ~addOK
       THEN /\ last' = Failed("AddTenant", t, "db")
            /\ UNCHANGED <<tenants, dbTenants>>
       ELSE /\ dbTenants' = MapPut(dbTenants, t, bits)
            /\ IF getOK
               THEN /\ tenants' = MapPut(tenants, t, NewTenant(bits))
                    /\ last' = Returned("AddTenant", t, FALSE)
               ELSE /\ last' = Failed("AddTenant", t, "db")
                    /\ UNCHANGED tenants
    /\ UNCHANGED <<instVars, attVars, restVars, panicked>>

\* DeleteTenant: refuse an id that is not cached, drop the tenant from the
\* cache, then delete it from the persistent store and return what the
\* store answered.
DeleteTenant(t, dbOK) ==
    /\ ~panicked
    /\ IF t \notin DOMAIN tenants
       THEN /\ last' = Failed("DeleteTenant", t, "NoTenant")
            /\ UNCHANGED <<tenants, dbTenants>>
       ELSE /\ tenants' = MapDelete(tenants, t)
            /\ IF dbOK
               THEN /\ dbTenants' = MapDelete(dbTenants, t)
                    /\ last' = Returned("DeleteTenant", t, FALSE)
               ELSE /\ last' = Failed("DeleteTenant", t, "db")
                    /\ UNCHANGED dbTenants
    /\ UNCHANGED <<instVars, attVars, restVars, panicked>>

\* JSONPatchTenant with a patch that sets SubnetBits: refuse an id that is
\* not cached, refuse a change of SubnetBits while the tenant has
\* instances, store the new config in the cached tenant, then persist it
\* and return what the store answered.
JSONPatchTenant(t, bits, dbOK) ==
    /\ ~panicked
    /\ IF t \notin DOMAIN tenants
       THEN /\ last' = Failed("JSONPatchTenant", t, "NoTenant")
            /\ UNCHANGED <<tenants, dbTenants>>
       ELSE IF tenants[t].instances # {} /\ tenants[t].SubnetBits # bits
       THEN /\ last' = Failed("JSONPatchTenant", t, "ActiveInstances")
            /\ UNCHANGED <<tenants, dbTenants>>
       ELSE /\ tenants' = [tenants EXCEPT ![t].SubnetBits = bits]
            /\ IF dbOK
               THEN /\ dbTenants' = MapPut(dbTenants, t, bits)
                    /\ last' = Returned("JSONPatchTenant", t, FALSE)
               ELSE /\ last' = Failed("JSONPatchTenant", t, "db")
                    /\ UNCHANGED dbTenants
    /\ UNCHANGED <<instVars, attVars, restVars, panicked>>

\* ------------------------------------------------------------------------
\* Tenant IP allocator
\* ------------------------------------------------------------------------

\* Tenant addresses are written as offsets from 172.16.0.0.  The code ends
\* a tenant's address space at the next multiple of 2^20 after its start;
\* here the space is 2^SlotBits addresses wide.
SlotBits == 3

\* end, for the start address 172.16.0.0
SpaceEnd == Pow2(SlotBits)

\* Most addresses one call asks for.
MaxNum == 2

\* 1 << hostBits
MaxHosts(bits) == Pow2(32 - bits)

\* A scan that takes a host whether or not it is marked.
HostFreeUnchecked(netmap, addr) == addr = addr

\* netmap[addr] == false
HostFree(netmap, addr) == addr \notin netmap

\* A cleaning that leaves the marks of the scan in the map.
cleanTenantIPsNone(net, IPs) == net

\* cleanTenantIPs: take the hosts out again, and every subnet entry that is
\* left without hosts.
RECURSIVE cleanTenantIPs(_, _)
cleanTenantIPs(net, IPs) ==
    IF IPs = << >> THEN net
    ELSE LET IP == Head(IPs)
             hosts == IF IP.subnet \in DOMAIN net THEN net[IP.subnet] \ {IP.host} ELSE {}
         IN cleanTenantIPs(IF hosts = {} THEN MapDelete(net, IP.subnet)
                           ELSE [net EXCEPT ![IP.subnet] = hosts],
                           Tail(IPs))

\* The host loop over one subnet: hosts 2 .. maxHosts-2 from start, each
\* free one is marked and collected, until num are collected.
RECURSIVE ScanHosts(_, _, _, _, _, _, _)
ScanHosts(net, subnetNum, start, host, maxHosts, num, got) ==
    IF host >= maxHosts - 1 THEN [net |-> net, got |-> got, done |-> FALSE]
    ELSE IF HostFree(net[subnetNum], start + host)
    THEN LET net1 == [net EXCEPT ![subnetNum] = @ \cup {start + host}]
             got1 == Append(got, [subnet |-> subnetNum, host |-> start + host])
         IN IF Len(got1) = num
            THEN [net |-> net1, got |-> got1, done |-> TRUE]
            ELSE ScanHosts(net1, subnetNum, start, host + 1, maxHosts, num, got1)
    ELSE ScanHosts(net, subnetNum, start, host + 1, maxHosts, num, got)

\* The subnet loop: from start upwards, a subnet without a host map gets
\* one; the loop ends when num hosts are collected or start reaches the
\* end of the space, in which case what was collected is cleaned.
\* A scan that gives up after the subnet it started in.
ScanSubnetsOne(net, start, bits, num, got) ==
    LET subnetNum == SubnetOf(start, bits)
        net1 == IF subnetNum \in DOMAIN net THEN net ELSE MapPut(net, subnetNum, {})
        r == ScanHosts(net1, subnetNum, start, 2, MaxHosts(bits), num, got)
    IN IF r.done THEN r
       ELSE [net |-> cleanTenantIPs(r.net, r.got), got |-> << >>, done |-> FALSE]

RECURSIVE ScanSubnets(_, _, _, _, _)
ScanSubnets(net, start, bits, num, got) ==
    IF start >= SpaceEnd
    THEN [net |-> cleanTenantIPs(net, got), got |-> << >>, done |-> FALSE]
    ELSE LET subnetNum == SubnetOf(start, bits)
             net1 == IF subnetNum \in DOMAIN net THEN net ELSE MapPut(net, subnetNum, {})
             r == ScanHosts(net1, subnetNum, start, 2, MaxHosts(bits), num, got)
         IN IF r.done THEN r
            ELSE ScanSubnets(r.net, start + MaxHosts(bits), bits, num, r.got)

\* No subnet chosen: the scan starts at 172.16.0.0.
NoStart == -1

\* The subnet the scan starts at: the first one the range over the network
\* map yields that has fewer than maxHosts hosts, in no particular order.
StartChoices(net, bits) ==
    IF \E k \in DOMAIN net : Cardinality(net[k]) < MaxHosts(bits)
    THEN {k \in DOMAIN net : Cardinality(net[k]) < MaxHosts(bits)}
    ELSE {NoStart}

Addresses(got) == [k \in 1..Len(got) |-> got[k].host]

\* AllocateTenantIPPool up to the tenants lock: GetTenant and the address
\* arithmetic on the SubnetBits it read.
AllocBegin(c, t, num) ==
    /\ ~panicked
    /\ calls[c].pc = "idle"
    /\ IF ~TenantKnown(tenants, t)
       THEN /\ last' = Failed("AllocateTenantIPPool", c, "NoTenant")
            /\ UNCHANGED calls
       ELSE /\ calls' = [calls EXCEPT ![c] =
                            [pc |-> "scan", t |-> t, bits |-> TenantBits(tenants, t),
                             num |-> num, addrs |-> << >>]]
            /\ last' = Returned("GetTenant", c, FALSE)
    /\ UNCHANGED <<tenants, dbTenants, instVars, attVars, poolVars, dbFailures,
                   held, lockVars, usageVars, workloadVars, imageVars, panicked>>

\* AllocateTenantIPPool under the tenants lock: the scan, the bulk claim
\* in the persistent store and, when either fails, the cleaning.
AllocCommit(c, k, dbOK) ==
    /\ ~panicked
    /\ calls[c].pc = "scan"
    /\ IF calls[c].t \notin DOMAIN tenants
       THEN /\ panicked' = TRUE
            /\ UNCHANGED <<tenants, calls, last>>
       ELSE LET t == calls[c].t
                net == tenants[t].network
                r == ScanSubnets(net, IF k = NoStart THEN 0 ELSE k, calls[c].bits,
                                 calls[c].num, << >>)
            IN
            /\ k \in StartChoices(net, calls[c].bits)
            /\ UNCHANGED panicked
            /\ IF ~r.done
               THEN /\ tenants' = [tenants EXCEPT ![t].network = r.net]
                    /\ calls' = [calls EXCEPT ![c] = IdleCall]
                    /\ last' = Failed("AllocateTenantIPPool", c, "OutOfAddrs")
               ELSE IF ~dbOK
               THEN /\ tenants' = [tenants EXCEPT ![t].network =
                                        cleanTenantIPs(r.net, r.got)]
                    /\ calls' = [calls EXCEPT ![c] = IdleCall]
                    /\ last' = Failed("AllocateTenantIPPool", c, "db")
               ELSE /\ tenants' = [tenants EXCEPT ![t].network = r.net]
                    /\ calls' = [calls EXCEPT ![c].pc = "activate",
                                              ![c].addrs = Addresses(r.got)]
                    /\ last' = Returned("claimTenantIPs", c, FALSE)
    /\ UNCHANGED <<dbTenants, instVars, attVars, poolVars, dbFailures, held, lockVars, usageVars, workloadVars, imageVars>>

\* What AllocateTenantIPPool returns once the scan and the claim succeeded:
\* "return addrs, retval" reads the local retval, which is nil, before the
\* deferred function assigns the answer of activateSubnets to it.
AllocReturn(c, actOK) ==
    [op |-> "AllocateTenantIPPool", arg |-> c, err |-> FALSE,
     kind |-> IF actOK THEN "" ELSE "activation",
     t |-> calls[c].t, addrs |-> calls[c].addrs]

\* AllocateTenantIPPool after the tenants lock is released: activateSubnets
\* reads the tenant without the lock and waits for the subnets of the
\* addresses, which the network controller activates or not.
AllocActivate(c, actOK) ==
    /\ ~panicked
    /\ calls[c].pc = "activate"
    /\ IF calls[c].t \notin DOMAIN tenants
       THEN /\ panicked' = TRUE
            /\ UNCHANGED <<calls, held, last>>
       ELSE /\ held' = [held EXCEPT ![calls[c].t] = @ \cup Range(calls[c].addrs)]
            /\ calls' = [calls EXCEPT ![c] = IdleCall]
            /\ last' = AllocReturn(c, actOK)
            /\ UNCHANGED panicked
    /\ UNCHANGED <<tenants, dbTenants, instVars, attVars, poolVars, dbFailures, lockVars, usageVars, workloadVars, imageVars>>

\* ReleaseTenantIP: parse the address, get the tenant, clear the host (and
\* the subnet entry left empty) in the cache, then release the address in
\* the persistent store and return what the store answered.
ReleaseTenantIP(t, ip, dbOK) ==
    /\ ~panicked
    /\ IF ReleaseRejected(tenants, t, ip)
       THEN /\ last' = Failed("ReleaseTenantIP", t, "Rejected")
            /\ UNCHANGED <<tenants, held>>
       ELSE /\ tenants' = ReleaseTenantIPCache(tenants, t, ip)
            /\ held' = [held EXCEPT ![t] = @ \ {ip}]
            /\ last' = IF dbOK THEN Returned("ReleaseTenantIP", t, FALSE)
                       ELSE Failed("ReleaseTenantIP", t, "db")
    /\ UNCHANGED <<dbTenants, instVars, attVars, poolVars, dbFailures, calls, lockVars, usageVars, workloadVars, imageVars,
                   panicked>>

\* The hosts in use in the network map of a cached tenant.
HostsInUse(t) == UNION {tenants[t].network[s] : s \in DOMAIN tenants[t].network}

\* Most addresses in use in the tenant's network map when a call begins.
MaxInUse == 3

\* The addresses callers release: the ones they were given, the gateway
\* address, and a string that is no address.
ReleaseIPs(t) == held[t] \cup {1, BadIP}

\* ------------------------------------------------------------------------
\* Specification of the tenant methods
\* ------------------------------------------------------------------------

\* The subnet the pools of this specification are made of.
TenantSpecCIDR == <<0, 30>>

NextTenant ==
    \/ \E t \in TenantIDs, bits \in PatchBits, addOK \in BOOLEAN, getOK \in BOOLEAN :
            AddTenant(t, bits, addOK, getOK)
    \/ \E t \in TenantIDs, dbOK \in BOOLEAN : DeleteTenant(t, dbOK)
    \/ \E t \in TenantIDs, bits \in PatchBits, dbOK \in BOOLEAN :
            JSONPatchTenant(t, bits, dbOK)
    \/ \E i \in InstanceIDs : AddInstance(i, "t1", NoID, Pending, FALSE, 2, "w1", TRUE)
    \/ \E p \in PoolIDs \ DOMAIN pools, dbOK \in BOOLEAN :
            /\ AddPool(p, MakePool(<<TenantSpecCIDR>>, << >>), dbOK)
            /\ UNCHANGED dbFailures
    \/ \E p \in PoolIDs, dbOK \in BOOLEAN :
            /\ DeletePool(p, dbOK)
            /\ UNCHANGED dbFailures

SpecTenant == Init /\ [][NextTenant]_vars

\* ------------------------------------------------------------------------
\* Specification of the tenant IP allocator under concurrent callers
\* ------------------------------------------------------------------------

NextIP ==
    \/ \E c \in Procs, t \in TenantIDs, num \in 1..MaxNum :
            /\ t \in DOMAIN tenants => Cardinality(HostsInUse(t)) + num <= MaxInUse
            /\ AllocBegin(c, t, num)
    \/ \E c \in Procs, k \in {NoStart} \cup 0..(SpaceEnd - 1), dbOK \in BOOLEAN :
            AllocCommit(c, k, dbOK)
    \/ \E c \in Procs, actOK \in BOOLEAN : AllocActivate(c, actOK)
    \/ \E ip \in ReleaseIPs("t1"), dbOK \in BOOLEAN : ReleaseTenantIP("t1", ip, dbOK)

SpecIP == Init /\ [][NextIP]_vars

\* ------------------------------------------------------------------------
\* Specification of the tenant IP allocator with patches of SubnetBits
\* ------------------------------------------------------------------------

NextIPPatch ==
    \/ \E num \in 1..MaxNum :
            /\ "t1" \in DOMAIN tenants
            /\ Cardinality(HostsInUse("t1")) + num <= MaxInUse
            /\ AllocBegin("c1", "t1", num)
    \/ \E k \in {NoStart} \cup 0..(SpaceEnd - 1), dbOK \in BOOLEAN :
            AllocCommit("c1", k, dbOK)
    \/ \E actOK \in BOOLEAN : AllocActivate("c1", actOK)
    \/ \E ip \in ReleaseIPs("t1"), dbOK \in BOOLEAN : ReleaseTenantIP("t1", ip, dbOK)
    \/ \E bits \in PatchBits, dbOK \in BOOLEAN : JSONPatchTenant("t1", bits, dbOK)
    \/ \E i \in InstanceIDs : AddInstance(i, "t1", NoID, Pending, FALSE, 2, "w1", TRUE)

SpecIPPatch == Init /\ [][NextIPPatch]_vars

\* ------------------------------------------------------------------------
\* Claims on tenants and on the tenant IP allocator
\* ------------------------------------------------------------------------

\* C8: when the persistent-store call of DeleteTenant, JSONPatchTenant or
\* DeletePool fails, the call returns an error and the cache (the tenants
\* table with the tenant config; pools, externalSubnets, externalIPs) is
\* what it was before the call.
C8_FailedWriteLeavesCache ==
    [][(last' # last /\ last'.err /\ last'.op \in {"DeleteTenant", "JSONPatchTenant",
                                                    "DeletePool"}
            /\ last'.kind = "db")
        => /\ tenants' = tenants
           /\ pools' = pools
           /\ externalSubnets' = externalSubnets
           /\ externalIPs' = externalIPs]_vars

\* C9: in every tenant's network map no host in use has index 0, 1 or
\* maxHosts-1 relative to the base of its subnet entry, maxHosts being
\* 2^(32-SubnetBits); every address AllocateTenantIPPool returns has a host
\* index from 2 to maxHosts-2.
C9_ReservedHostsFree ==
    /\ \A t \in DOMAIN tenants :
       \A s \in DOMAIN tenants[t].network :
       \A a \in tenants[t].network[s] :
            (a - s) \notin {0, 1, MaxHosts(tenants[t].SubnetBits) - 1}
    /\ \A c \in Procs :
        (calls[c].pc = "activate" /\ calls[c].t \in DOMAIN tenants) =>
            \A a \in Range(calls[c].addrs) :
                LET bits == tenants[calls[c].t].SubnetBits
                IN /\ a - SubnetOf(a, bits) >= 2
                   /\ a - SubnetOf(a, bits) <= MaxHosts(bits) - 2

\* C10: under any interleaving of AllocateTenantIPPool and ReleaseTenantIP
\* calls for one tenant, the addresses a successful allocation is about to
\* return are pairwise distinct, are marked in use in the tenant's network
\* map, and are neither held by a caller since an earlier allocation nor
\* about to be returned by another allocation.
C10_NoDoubleAllocation ==
    \A c \in Procs :
        calls[c].pc = "activate" =>
            /\ \A j \in DOMAIN calls[c].addrs, k \in DOMAIN calls[c].addrs :
                    j # k => calls[c].addrs[j] # calls[c].addrs[k]
            /\ calls[c].t \in DOMAIN tenants
            /\ Range(calls[c].addrs) \subseteq HostsInUse(calls[c].t)
            /\ Range(calls[c].addrs) \cap held[calls[c].t] = {}
            /\ \A d \in Procs \ {c} :
                    (calls[d].pc = "activate" /\ calls[d].t = calls[c].t) =>
                        Range(calls[c].addrs) \cap Range(calls[d].addrs) = {}

\* Two allocations for one tenant are about to return, one of them two
\* addresses, while a caller holds an address of that tenant.
C10_Witness ==
    /\ calls["c1"].pc = "activate"
    /\ calls["c2"].pc = "activate"
    /\ calls["c1"].t = calls["c2"].t
    /\ Len(calls["c1"].addrs) = 2
    /\ held[calls["c1"].t] # {}

\* ------------------------------------------------------------------------
\* Table locks
\* ------------------------------------------------------------------------

\* l.Lock(); inner; l.Unlock()
Write(l, inner) == <<<<"Lock", l>>>> \o inner \o <<<<"Unlock", l>>>>

\* l.RLock(); inner; l.RUnlock()
Read(l, inner) == <<<<"RLock", l>>>> \o inner \o <<<<"RUnlock", l>>>>

\* The lock steps of each method on its longest path.
getTenantLocks == Read("tenants", << >>)

ReleaseTenantIPLocks == getTenantLocks \o Write("tenants", << >>)

GetInstanceLocks == Read("instances", << >>)

GetBlockDeviceLocks == Read("blockDevices", << >>)

AddBlockDeviceLocks ==
    Write("blockDevices", << >>) \o Write("blockDevices", << >>) \o Write("tenants", << >>)

UpdateBlockDeviceLocks == Read("blockDevices", << >>) \o AddBlockDeviceLocks

updateStorageAttachmentsLocks ==
    Write("attachments", GetBlockDeviceLocks \o UpdateBlockDeviceLocks)

deleteInstanceLocks ==
    Write("instanceLastStat", << >>) \o Write("instances", << >>)
        \o Write("tenants", << >>) \o Write("nodes", << >>)
        \o ReleaseTenantIPLocks \o updateStorageAttachmentsLocks

updateInstanceStatusLocks == Write("instanceLastStat", << >>)

addNodeStatLocks == Write("nodes", << >>) \o Write("nodeLastStat", << >>)

updateTenantUsageLocks == Write("tenantUsage", << >>)

addInstanceStatsLocks ==
    Write("instanceLastStat", updateTenantUsageLocks)
        \o Write("instances", Write("nodes", << >>))

ResolveImageLocks == Read("tenants", << >>)

\* activateSubnets takes no lock and waits in the network controller.
activateSubnetsLocks == <<<<"Call", "WaitForActive">>>>

\* An allocation that activates the subnets before the deferred unlock.
AllocateTenantIPPoolLocksHeld ==
    getTenantLocks \o Write("tenants", activateSubnetsLocks)

\* GetTenant, the scan under the tenants lock, and the deferred function:
\* unlock, then activate.
AllocateTenantIPPoolLocks ==
    getTenantLocks \o Write("tenants", << >>) \o activateSubnetsLocks

\* The facade calls, by name, with their lock steps.
FacadeLocks ==
    [AddWorkload |->
        Write("workloads", Write("tenants", << >>)),
     DeleteWorkload |->
        Write("workloads", Read("instances", Write("tenants", << >>))),
     GetWorkloads |->
        Read("workloads", Read("tenants", << >>)),
     GetTenant |-> getTenantLocks,
     AddTenant |-> Write("tenants", << >>),
     ReleaseTenantIP |-> ReleaseTenantIPLocks,
     AllocateTenantIPPool |-> AllocateTenantIPPoolLocks,
     GetInstance |-> GetInstanceLocks,
     AddInstance |->
        Write("instances", Write("instanceLastStat", << >>)) \o Write("tenants", << >>),
     DeleteInstance |->
        GetInstanceLocks \o deleteInstanceLocks,
     StartFailure |->
        GetInstanceLocks \o deleteInstanceLocks \o Write("nodes", << >>),
     AttachVolumeFailure |->
        GetBlockDeviceLocks \o UpdateBlockDeviceLocks \o GetInstanceLocks \o Write("nodes", << >>),
     InstanceRestarting |->
        updateInstanceStatusLocks \o Write("instances", << >>),
     InstanceStopped |->
        updateInstanceStatusLocks \o Write("instances", << >>) \o Write("nodes", << >>),
     DeleteNode |->
        Write("nodes", << >>) \o Write("nodeLastStat", << >>),
     AddNode |-> Write("nodes", << >>),
     GetNode |-> Read("nodes", << >>),
     HandleStats |->
        addNodeStatLocks \o addInstanceStatsLocks,
     GetInstanceLastStats |->
        Read("instanceLastStat", GetInstanceLocks),
     GetNodeLastStats |-> Read("nodeLastStat", << >>),
     GetTenantUsage |-> Read("tenantUsage", << >>),
     GetBlockDevice |-> GetBlockDeviceLocks,
     AddBlockDevice |-> AddBlockDeviceLocks,
     UpdateBlockDevice |-> UpdateBlockDeviceLocks,
     DeleteBlockDevice |->
        Write("blockDevices", << >>) \o Write("blockDevices", Write("tenants", << >>)),
     CreateStorageAttachment |->
        GetBlockDeviceLocks \o UpdateBlockDeviceLocks \o Write("attachments", << >>),
     GetStorageAttachments |-> Read("attachments", << >>),
     AddPool |->
        Write("pools", << >>) \o Write("pools", << >>),
     DeletePool |-> Write("pools", << >>),
     GetPool |-> Read("pools", << >>),
     MapExternalIP |->
        GetInstanceLocks \o Write("pools", << >>),
     AddImage |->
        Write("images", ResolveImageLocks \o ResolveImageLocks \o Write("tenants", << >>)),
     UpdateImage |->
        Write("images", ResolveImageLocks),
     GetImage |-> Read("images", << >>),
     GetImages |->
        Read("images", Read("tenants", << >>)),
     DeleteImage |->
        Write("images", Write("tenants", << >>)),
     GetWorkload |-> Read("workloads", << >>)]

\* The locks a caller holds.
HeldBy(c) == {l \in Locks : lockW[l] = c \/ c \in lockR[l]}

\* The step a caller is at, if it is inside a call.
AtStep(c, kind) == prog[c].steps # << >> /\ Head(prog[c].steps)[1] = kind

WantedLock(c) == Head(prog[c].steps)[2]

\* sync.RWMutex: Lock waits for the writer and for every reader; RLock
\* waits for the writer, and for any caller blocked in Lock.
CanLock(l) == lockW[l] = NoID /\ lockR[l] = {}

WriterBlocked(l) == \E w \in Procs : AtStep(w, "Lock") /\ WantedLock(w) = l /\ ~CanLock(l)

CanRLock(l) == lockW[l] = NoID /\ ~WriterBlocked(l)

\* A goroutine enters a facade call.
StartCall(c, op) ==
    /\ prog[c] = NoProg
    /\ prog' = [prog EXCEPT ![c] = [op |-> op, steps |-> FacadeLocks[op]]]
    /\ UNCHANGED <<lockW, lockR>>

\* What is left of the call after its next step.
Advance(c) ==
    IF Len(prog[c].steps) = 1 THEN NoProg
    ELSE [prog[c] EXCEPT !.steps = Tail(@)]

\* The caller's next step is Lock or RLock and the lock is granted.
LockStep(c) ==
    /\ \/ /\ AtStep(c, "Lock")
          /\ CanLock(WantedLock(c))
          /\ lockW' = [lockW EXCEPT ![WantedLock(c)] = c]
          /\ UNCHANGED lockR
       \/ /\ AtStep(c, "RLock")
          /\ CanRLock(WantedLock(c))
          /\ lockR' = [lockR EXCEPT ![WantedLock(c)] = @ \cup {c}]
          /\ UNCHANGED lockW
    /\ prog' = [prog EXCEPT ![c] = Advance(c)]

\* The caller's next step is Unlock or RUnlock.
UnlockStep(c) ==
    /\ \/ /\ AtStep(c, "Unlock")
          /\ lockW' = [lockW EXCEPT ![WantedLock(c)] = NoID]
          /\ UNCHANGED lockR
       \/ /\ AtStep(c, "RUnlock")
          /\ lockR' = [lockR EXCEPT ![WantedLock(c)] = @ \ {c}]
          /\ UNCHANGED lockW
    /\ prog' = [prog EXCEPT ![c] = Advance(c)]

\* The call the caller waits in returns.
CallStep(c) ==
    /\ AtStep(c, "Call")
    /\ prog' = [prog EXCEPT ![c] = Advance(c)]
    /\ UNCHANGED <<lockW, lockR>>

\* ------------------------------------------------------------------------
\* Specification of the table locks under concurrent callers
\* ------------------------------------------------------------------------

\* The tables and the store, which the lock steps leave alone.
tableVars ==
    <<tenants, dbTenants, instVars, attVars, poolVars, dbFailures, ipVars,
      usageVars, workloadVars, imageVars, panicked, last>>

NextLocks ==
    \/ \E c \in Procs, op \in DOMAIN FacadeLocks :
            StartCall(c, op) /\ UNCHANGED tableVars
    \/ \E c \in Procs : LockStep(c) /\ UNCHANGED tableVars
    \/ \E c \in Procs : UnlockStep(c) /\ UNCHANGED tableVars
    \/ \E c \in Procs : CallStep(c) /\ UNCHANGED tableVars

SpecLock == Init /\ [][NextLocks]_vars

\* ------------------------------------------------------------------------
\* Claims on the table locks
\* ------------------------------------------------------------------------

\* C6: no facade call asks for a table lock that comes earlier in the
\* order workloads, tenants, instances, nodes, blockDevices, attachments,
\* pools, images, instanceLastStat, nodeLastStat, tenantUsage while it holds
\* a lock that comes later in that order.
C6_LockOrder ==
    LET order == <<"workloads", "tenants", "instances", "nodes", "blockDevices",
                   "attachments", "pools", "images", "instanceLastStat",
                   "nodeLastStat", "tenantUsage">>
        rank(l) == CHOOSE k \in DOMAIN order : order[k] = l
    IN \A c \in Procs :
        (AtStep(c, "Lock") \/ AtStep(c, "RLock")) =>
            \A h \in HeldBy(c) : rank(h) <= rank(WantedLock(c))

\* The caller waits for a lock that is not granted.
Blocked(c) ==
    \/ AtStep(c, "Lock") /\ ~CanLock(WantedLock(c))
    \/ AtStep(c, "RLock") /\ ~CanRLock(WantedLock(c))

\* The callers a blocked caller waits for.
Blockers(c) ==
    IF AtStep(c, "Lock")
    THEN ({lockW[WantedLock(c)]} \ {NoID}) \cup lockR[WantedLock(c)]
    ELSE ({lockW[WantedLock(c)]} \ {NoID})
            \cup {w \in Procs : AtStep(w, "Lock") /\ WantedLock(w) = WantedLock(c)}

\* C7: no interleaving of concurrent facade calls reaches a state in which
\* a set of calls wait on each other's table locks, so that none of them
\* ever returns.
C7_NoDeadlock ==
    ~ \E S \in (SUBSET Procs) \ {{}} :
        \A c \in S : Blocked(c) /\ Blockers(c) \subseteq S

\* C11: no caller is inside the network controller's WaitForActive while
\* it holds the tenants lock, so that other callers can take the tenants
\* lock while an activation blocks.
C11_ActivationUnlocked ==
    \A c \in Procs :
        (AtStep(c, "Call") /\ WantedLock(c) = "WaitForActive") =>
            /\ "tenants" \notin HeldBy(c)
            /\ prog[c].op = "AllocateTenantIPPool"

\* A caller waits in WaitForActive while another caller holds the tenants
\* lock as a writer.
C11_Witness ==
    \E c \in Procs : \E d \in Procs \ {c} :
        /\ AtStep(c, "Call") /\ WantedLock(c) = "WaitForActive"
        /\ lockW["tenants"] = d

\* C12: when AllocateTenantIPPool has claimed the addresses and the
\* activation of a subnet fails, the call returns the addresses with a
\* non-nil error, and the addresses stay in use in the network map.
C12_ActivationErrorReturned ==
    (last.op = "AllocateTenantIPPool" /\ last.kind = "activation") =>
        /\ last.err
        /\ last.addrs # << >>
        /\ Range(last.addrs) \subseteq HostsInUse(last.t)

\* The step in which caller c leaves the scan of a one-address request read
\* under SubnetBits 30, for a cached tenant, the persistent store accepting
\* the claim.
ScanOfOne(c) ==
    /\ calls[c].pc = "scan" /\ calls'[c].pc # "scan"
    /\ calls[c].bits = 30 /\ calls[c].num = 1
    /\ calls[c].t \in DOMAIN tenants
    /\ ~(last'.err /\ last'.kind = "db")

\* C13 as amended: for a tenant with SubnetBits 30, AllocateTenantIPPool(t, 1)
\* with no address in use succeeds with 172.16.0.2, and a second
\* AllocateTenantIPPool(t, 1) succeeds with 172.16.0.6, the one usable host
\* of the next subnet.
C13_SecondFromNextSubnet ==
    [][\A c \in Procs :
        ScanOfOne(c) =>
            /\ tenants[calls[c].t].network = << >> =>
                    calls'[c].pc = "activate" /\ calls'[c].addrs = <<2>>
            /\ tenants[calls[c].t].network = MapPut(<< >>, 0, {2}) =>
                    calls'[c].pc = "activate" /\ calls'[c].addrs = <<6>>]_vars

\* A second one-address allocation under SubnetBits 30 is about to return
\* 172.16.0.6 while 172.16.0.2 is in use.
C13_Witness ==
    \E c \in Procs :
        /\ calls[c].pc = "activate" /\ calls[c].bits = 30 /\ calls[c].addrs = <<6>>
        /\ calls[c].t \in DOMAIN tenants
        /\ tenants[calls[c].t].network = MapPut(MapPut(<< >>, 0, {2}), 4, {6})

\* C13 as stated: the second AllocateTenantIPPool(t, 1) fails with out of
\* addresses.
C13_SecondOutOfAddrs ==
    [][\A c \in Procs :
        (ScanOfOne(c) /\ tenants[calls[c].t].network = MapPut(<< >>, 0, {2})) =>
            last'.err /\ last'.kind = "OutOfAddrs"]_vars

AttachmentsOf(i) == {id \in DOMAIN attachments : attachments[id].InstanceID = i}

AttachmentsTo(v) == {id \in DOMAIN attachments : attachments[id].BlockID = v}

\* C15: a successful CreateStorageAttachment on an Available volume moves it
\* to InUse, and the successful DeleteStorageAttachment of that attachment,
\* the only one of the volume, leaves the volume Available.
C15_DetachRestoresAvailable ==
    [][\A id \in DOMAIN attachments :
        (/\ last' # last
         /\ last'.op = "DeleteStorageAttachment" /\ last'.arg = id /\ ~last'.err
         /\ attachments[id].BlockID \in DOMAIN blockDevices
         /\ AttachmentsTo(attachments[id].BlockID) = {id}) =>
            blockDevices'[attachments[id].BlockID].State = Available]_vars

\* C16: the successful deletion of a non-CNCI instance whose attachments
\* all attach volumes InUse leaves each of these volumes Available, leaves
\* none of these attachments in the attachments table or in the persistent
\* store, leaves no instanceVolumes entry of the instance, and leaves the
\* instance's address out of the tenant's network map.
C16_DeleteInstanceCascade ==
    [][\A i \in DOMAIN instances :
        (/\ last'.op = "DeleteInstance" /\ last'.arg = i /\ ~last'.err
         /\ i \notin DOMAIN instances'
         /\ ~instances[i].CNCI
         /\ \A id \in AttachmentsOf(i) :
                /\ attachments[id].BlockID \in DOMAIN blockDevices
                /\ blockDevices[attachments[id].BlockID].State = InUse) =>
            /\ \A id \in AttachmentsOf(i) :
                    /\ blockDevices'[attachments[id].BlockID].State = Available
                    /\ id \notin DOMAIN attachments'
                    /\ id \notin dbAttachments'
            /\ \A k \in DOMAIN instanceVolumes' : k[1] # i
            /\ instances[i].TenantID \in DOMAIN tenants' =>
                    \A s \in DOMAIN tenants'[instances[i].TenantID].network :
                        instances[i].IPAddress
                            \notin tenants'[instances[i].TenantID].network[s]]_vars

\* C17: when DeleteInstance returns successfully the instance is in none of
\* the instances table, the instances map of a tenant, the instances map
\* of a node and instanceLastStat, whatever nodes reported it before.
C17_DeletedInstanceGone ==
    [][\A i \in DOMAIN instances :
        (last'.op = "DeleteInstance" /\ last'.arg = i /\ ~last'.err) =>
            /\ i \notin DOMAIN instances'
            /\ i \notin DOMAIN instanceLastStat'
            /\ \A t \in DOMAIN tenants' : i \notin tenants'[t].instances
            /\ \A n \in DOMAIN nodes' : i \notin nodes'[n].instances]_vars

\* ------------------------------------------------------------------------
\* Specification of the usage accounting
\* ------------------------------------------------------------------------

\* The last minute of the clock.
MaxTime == 7

\* The CPU usages a stats payload reports for an instance.
StatCPUs == {-1, 10, 15, 20}

\* Time passes between two facade calls.
Tick(d) ==
    /\ now + d <= MaxTime
    /\ now' = now + d
    /\ UNCHANGED <<tenants, dbTenants, instVars, attVars, poolVars, dbFailures, ipVars,
                   lockVars, tenantUsage, workloadVars, imageVars, panicked, last>>

NextUsage ==
    \/ \E i \in InstanceIDs, t \in TenantIDs :
            AddInstance(i, t, NoID, Pending, FALSE, 2, "w1", TRUE)
    \/ \E i \in InstanceIDs, st \in StatStates, cpu \in StatCPUs, instStatOK \in BOOLEAN :
            HandleStats("n1", TRUE, <<<<i, st, cpu>>>>, TRUE, instStatOK)
    \/ \E d \in {1, UsagePeriod} : Tick(d)

SpecUsage == Init /\ [][NextUsage]_vars

\* A stats sample moves the recorded CPU usage of instance i of tenant t
\* from one value to another while the tenant's history is hist.
UsageFed(i, t, from, to, hist) ==
    /\ i \in DOMAIN instanceLastStat
    /\ instanceLastStat[i].TenantID = t
    /\ instanceLastStat[i].VCPUUsage = from
    /\ i \in DOMAIN instanceLastStat'
    /\ instanceLastStat'[i].VCPUUsage = to
    /\ IF hist = << >> THEN t \notin DOMAIN tenantUsage
       ELSE t \in DOMAIN tenantUsage /\ tenantUsage[t] = hist

\* ------------------------------------------------------------------------
\* Claims on the usage accounting
\* ------------------------------------------------------------------------

\* C18: for an instance whose previous usage is zero and whose tenant has
\* no history, a sample with cpu 10 at minute s makes the history one entry
\* (s, 10); a sample with cpu 15 one minute later leaves exactly one entry,
\* with timestamp s and the cumulative VCPU 15; a sample with cpu 20 six
\* minutes after s appends a second entry timestamped s + 6 whose
\* cumulative VCPU is 20.
C18_UsageWindow ==
    [][\A i \in InstanceIDs, t \in TenantIDs :
        /\ UsageFed(i, t, 0, 10, << >>) =>
                tenantUsage'[t] = <<[Timestamp |-> now, VCPU |-> 10]>>
        /\ UsageFed(i, t, 10, 15, <<[Timestamp |-> now - 1, VCPU |-> 10]>>) =>
                tenantUsage'[t] = <<[Timestamp |-> now - 1, VCPU |-> 15]>>
        /\ UsageFed(i, t, 15, 20, <<[Timestamp |-> now - 6, VCPU |-> 15]>>) =>
                tenantUsage'[t] = <<[Timestamp |-> now - 6, VCPU |-> 15],
                                    [Timestamp |-> now, VCPU |-> 20]>>]_vars

\* The history after cpu 10 at s, cpu 15 at s + 1 and cpu 20 at s + 6.
C18_Witness ==
    /\ "i1" \in DOMAIN instanceLastStat
    /\ instanceLastStat["i1"].TenantID = "t1"
    /\ instanceLastStat["i1"].VCPUUsage = 20
    /\ now >= 6
    /\ "t1" \in DOMAIN tenantUsage
    /\ tenantUsage["t1"] = <<[Timestamp |-> now - 6, VCPU |-> 15],
                             [Timestamp |-> now, VCPU |-> 20]>>

\* C18 as stated: after cpu 10 at s and cpu 15 at s + 1 the one entry has
\* VCPU 5.
C18_DeltaOnly ==
    [][\A i \in InstanceIDs, t \in TenantIDs :
        UsageFed(i, t, 10, 15, <<[Timestamp |-> now - 1, VCPU |-> 10]>>) =>
            /\ Len(tenantUsage'[t]) = 1
            /\ tenantUsage'[t][1].VCPU = 5]_vars

\* C20: in every tenant's history two consecutive entries are at least
\* UsagePeriod minutes apart (so the timestamps never decrease), and a step
\* that changes a history either appends one entry timestamped now, the
\* last entry being UsagePeriod minutes old or older, or rewrites the last
\* entry only and keeps its timestamp, the last entry being younger.
C20_UsagePeriod ==
    /\ [](\A t \in DOMAIN tenantUsage : \A k \in 1..(Len(tenantUsage[t]) - 1) :
            tenantUsage[t][k + 1].Timestamp - tenantUsage[t][k].Timestamp >= UsagePeriod)
    /\ [][\A t \in DOMAIN tenantUsage :
            tenantUsage'[t] # tenantUsage[t] =>
                LET h == tenantUsage[t]
                    h2 == tenantUsage'[t]
                IN  IF now - h[Len(h)].Timestamp >= UsagePeriod
                    THEN /\ Len(h2) = Len(h) + 1
                         /\ SubSeq(h2, 1, Len(h)) = h
                         /\ h2[Len(h2)].Timestamp = now
                    ELSE /\ Len(h2) = Len(h)
                         /\ SubSeq(h2, 1, Len(h) - 1) = SubSeq(h, 1, Len(h) - 1)
                         /\ h2[Len(h2)].Timestamp = h[Len(h)].Timestamp]_vars

\* A history of two entries exactly UsagePeriod minutes apart, the clock
\* past the second one, whose instance has reported since.
C20_Witness ==
    \E t \in DOMAIN tenantUsage :
        /\ Len(tenantUsage[t]) = 2
        /\ tenantUsage[t][2].Timestamp - tenantUsage[t][1].Timestamp = UsagePeriod
        /\ now > tenantUsage[t][2].Timestamp
        /\ last.op = "HandleStats"

\* ------------------------------------------------------------------------
\* Workloads
\* ------------------------------------------------------------------------

WorkloadIDs == {"w1", "w2"}

\* AddWorkload of a workload with a new id, for tenant t, public or
\* private: persist, insert into workloads, then append the id to
\* publicWorkloads or to the tenant's workloads; a private workload of a
\* tenant that is not cached returns ErrNoTenant after the insert.
AddWorkload(w, t, public, dbOK) ==
    /\ ~panicked
    /\ w \notin DOMAIN workloads
    /\ w \notin dbWorkloads
    /\ IF ~dbOK
       THEN /\ last' = Failed("AddWorkload", w, "db")
            /\ UNCHANGED <<workloads, publicWorkloads, dbWorkloads, tenants>>
       ELSE /\ dbWorkloads' = dbWorkloads \cup {w}
            /\ workloads' = MapPut(workloads, w, [TenantID |-> t, Public |-> public])
            /\ IF public
               THEN /\ publicWorkloads' = Append(publicWorkloads, w)
                    /\ last' = Returned("AddWorkload", w, FALSE)
                    /\ UNCHANGED tenants
               ELSE IF t \notin DOMAIN tenants
               THEN /\ last' = Failed("AddWorkload", w, "NoTenant")
                    /\ UNCHANGED <<publicWorkloads, tenants>>
               ELSE /\ tenants' = [tenants EXCEPT ![t].workloads = Append(@, w)]
                    /\ last' = Returned("AddWorkload", w, FALSE)
                    /\ UNCHANGED publicWorkloads
    /\ UNCHANGED <<dbTenants, instVars, attVars, poolVars, dbFailures, ipVars, lockVars,
                   usageVars, imageVars, panicked>>

\* DeleteWorkload: refuse a workload an instance of the instances table
\* references, refuse an id that is not cached, delete from the persistent
\* store, cut the first occurrence of the id out of publicWorkloads or out
\* of the tenant's workloads, then delete from workloads.  A private
\* workload whose tenant is not cached returns ErrTenantNotFound after the
\* persistent delete and before the delete from workloads.
DeleteWorkload(w, dbOK) ==
    LET CutFirst(s) ==
            IF \E k \in DOMAIN s : s[k] = w
            THEN RemoveAt(s, CHOOSE k \in DOMAIN s :
                                /\ s[k] = w
                                /\ \A j \in 1..(k - 1) : s[j] # w)
            ELSE s
    IN  /\ ~panicked
        /\ IF \E i \in DOMAIN instances : instances[i].WorkloadID = w
           THEN /\ last' = Failed("DeleteWorkload", w, "WorkloadInUse")
                /\ UNCHANGED <<workloads, publicWorkloads, dbWorkloads, tenants>>
           ELSE IF w \notin DOMAIN workloads
           THEN /\ last' = Failed("DeleteWorkload", w, "WorkloadNotFound")
                /\ UNCHANGED <<workloads, publicWorkloads, dbWorkloads, tenants>>
           ELSE IF ~dbOK
           THEN /\ last' = Failed("DeleteWorkload", w, "db")
                /\ UNCHANGED <<workloads, publicWorkloads, dbWorkloads, tenants>>
           ELSE /\ dbWorkloads' = dbWorkloads \ {w}
                /\ IF workloads[w].Public
                   THEN /\ publicWorkloads' = CutFirst(publicWorkloads)
                        /\ workloads' = MapDelete(workloads, w)
                        /\ last' = Returned("DeleteWorkload", w, FALSE)
                        /\ UNCHANGED tenants
                   ELSE IF workloads[w].TenantID \notin DOMAIN tenants
                   THEN /\ last' = Failed("DeleteWorkload", w, "TenantNotFound")
                        /\ UNCHANGED <<workloads, publicWorkloads, tenants>>
                   ELSE /\ tenants' = [tenants EXCEPT
                                ![workloads[w].TenantID].workloads = CutFirst(@)]
                        /\ workloads' = MapDelete(workloads, w)
                        /\ last' = Returned("DeleteWorkload", w, FALSE)
                        /\ UNCHANGED publicWorkloads
        /\ UNCHANGED <<dbTenants, instVars, attVars, poolVars, dbFailures, ipVars, lockVars,
                       usageVars, imageVars, panicked>>

\* ------------------------------------------------------------------------
\* Specification of the workloads
\* ------------------------------------------------------------------------

NextWorkload ==
    \/ \E t \in TenantIDs : AddTenant(t, 29, TRUE, TRUE)
    \/ \E t \in TenantIDs : DeleteTenant(t, TRUE)
    \/ \E w \in WorkloadIDs, t \in TenantIDs, public \in BOOLEAN, dbOK \in BOOLEAN :
            AddWorkload(w, t, public, dbOK)
    \/ \E i \in InstanceIDs, t \in TenantIDs, w \in WorkloadIDs :
            AddInstance(i, t, NoID, Pending, FALSE, 2, w, TRUE)
    \/ \E i \in InstanceIDs : DeleteInstance(i, TRUE, TRUE, TRUE, {}, {}, TRUE)
    \/ \E w \in WorkloadIDs, dbOK \in BOOLEAN : DeleteWorkload(w, dbOK)

SpecWorkload == Init /\ [][NextWorkload]_vars

\* ------------------------------------------------------------------------
\* Claims on the workloads
\* ------------------------------------------------------------------------

\* C19: DeleteWorkload(w) fails with WorkloadInUse and leaves w in the
\* cache and the persistent store while an instance of the instances table
\* has WorkloadID w; when no instance references the cached workload w and
\* the store accepts the delete, DeleteWorkload(w) succeeds and w is gone
\* from the workloads table, from publicWorkloads and from its tenant's
\* workloads.
C19_DeleteWorkloadRefusedInUse ==
    [][\A w \in WorkloadIDs :
        (last'.op = "DeleteWorkload" /\ last'.arg = w /\ last' # last) =>
            IF \E i \in DOMAIN instances : instances[i].WorkloadID = w
            THEN /\ last'.err
                 /\ last'.kind = "WorkloadInUse"
                 /\ UNCHANGED <<workloads, publicWorkloads, dbWorkloads, tenants>>
            ELSE (w \in DOMAIN workloads /\ ~(last'.err /\ last'.kind = "db")) =>
                    /\ ~last'.err
                    /\ w \notin DOMAIN workloads'
                    /\ \A k \in DOMAIN publicWorkloads' : publicWorkloads'[k] # w
                    /\ \A t \in DOMAIN tenants' :
                            \A k \in DOMAIN tenants'[t].workloads :
                                tenants'[t].workloads[k] # w]_vars

\* ------------------------------------------------------------------------
\* Claims on nodes and start failures
\* ------------------------------------------------------------------------

\* C24: an instance is in the instances map of node n if and only if its
\* NodeID is n and its state is not Exited; in particular no instance is in
\* the maps of two nodes at once.
C24_NodeMapsExact ==
    /\ \A i \in DOMAIN instances : \A n \in DOMAIN nodes :
            i \in nodes[n].instances <=>
                (instances[i].NodeID = n /\ instances[i].State # Exited)
    /\ \A i \in DOMAIN instances : \A n \in DOMAIN nodes : \A n2 \in DOMAIN nodes :
            (i \in nodes[n].instances /\ i \in nodes[n2].instances) => n = n2

\* C25: every instance in state Exited has an empty NodeID, and every
\* instance with an empty NodeID whose state is not Exited is Pending or
\* Missing.
C25_ExitedHasNoNode ==
    \A i \in DOMAIN instances :
        /\ instances[i].State = Exited => instances[i].NodeID = NoID
        /\ (instances[i].NodeID = NoID /\ instances[i].State # Exited) =>
                instances[i].State \in {Pending, Missing}

\* C26: a StartFailure for a cached instance that names a cached node and
\* whose event the store does not refuse removes the instance if and only
\* if the reason is fatal and this is no migration, and in both cases adds
\* one to the node's TotalFailures and StartFailures and writes one event.
C26_StartFailureCounts ==
    [][\A i \in DOMAIN instances : \A n \in DOMAIN nodes :
        (/\ last'.op = "StartFailure" /\ last'.arg = <<i, n>> /\ last' # last
         /\ n \in DOMAIN nodes'
         /\ last'.logged # "failed") =>
            /\ i \notin DOMAIN instances' <=> (last'.fatal /\ ~last'.migration)
            /\ nodes'[n].TotalFailures = nodes[n].TotalFailures + 1
            /\ nodes'[n].StartFailures = nodes[n].StartFailures + 1
            /\ last'.logged = "ok"]_vars

\* C27: a StartFailure for an instance in state Exited or Running, with any
\* reason, does not delete the instance.
C27_OnlyPendingRemoved ==
    [][\A i \in DOMAIN instances :
        (/\ last'.op = "StartFailure" /\ last'.arg[1] = i /\ last' # last
         /\ instances[i].State \in {Exited, Running}) =>
            i \in DOMAIN instances']_vars

\* C28: after DeleteNode(n) has returned, n is in neither nodes nor
\* nodeLastStat, no instance has NodeID n, and every instance that had
\* NodeID n is Missing with an empty NodeID.
C28_DeleteNodeClearsInstances ==
    [][\A n \in DOMAIN nodes :
        (last'.op = "DeleteNode" /\ last'.arg = n /\ n \notin DOMAIN nodes') =>
            /\ n \notin DOMAIN nodeLastStat'
            /\ \A i \in DOMAIN instances' :
                    /\ instances'[i].NodeID # n
                    /\ instances[i].NodeID = n =>
                            /\ instances'[i].State = Missing
                            /\ instances'[i].NodeID = NoID]_vars

\* ------------------------------------------------------------------------
\* Claims on tenant deletion and pool validation
\* ------------------------------------------------------------------------

\* C22: a tenant leaves the tenants table only when it has no instances,
\* no devices, no images and no workloads.
C22_DeleteOnlyEmptyTenant ==
    [][\A t \in DOMAIN tenants :
        t \notin DOMAIN tenants' =>
            /\ tenants[t].instances = {}
            /\ tenants[t].devices = << >>
            /\ tenants[t].images = << >>
            /\ tenants[t].workloads = << >>
            /\ \A i \in DOMAIN instances : instances[i].TenantID # t
            /\ \A w \in DOMAIN workloads :
                    workloads[w].Public \/ workloads[w].TenantID # t]_vars

\* C30: an AddPool that is rejected on validation (unparsable CIDR,
\* DuplicateSubnet, InvalidIP or DuplicateIP) leaves pools, externalSubnets
\* and externalIPs as they were.
C30_RejectedPoolLeavesNothing ==
    [][\A p \in PoolIDs :
        (/\ last'.op = "AddPool" /\ last'.arg = p /\ last' # last
         /\ last'.err
         /\ last'.kind \in {"ParseCIDR", "DuplicateSubnet", "InvalidIP", "DuplicateIP"}) =>
            UNCHANGED <<pools, externalSubnets, externalIPs>>]_vars

\* ------------------------------------------------------------------------
\* The controller's tenant calls
\* ------------------------------------------------------------------------

\* The SubnetBits callers pass in a tenant config or in a patch.
RequestBits == {0, 3, 4, 30, 31}

\* controller.CreateTenant: SubnetBits 0 becomes 24, any other value
\* outside 4..30 is rejected, then Datastore.AddTenant.
CreateTenant(t, bits, addOK, getOK) ==
    IF bits # 0 /\ (bits < 4 \/ bits > 30)
    THEN /\ ~panicked
         /\ last' = Failed("CreateTenant", t, "SubnetBits")
         /\ UNCHANGED <<tenants, dbTenants, instVars, attVars, restVars, panicked>>
    ELSE AddTenant(t, IF bits = 0 THEN 24 ELSE bits, addOK, getOK)

\* controller.PatchTenant hands the patch to Datastore.JSONPatchTenant as
\* it is.
PatchTenant(t, bits, dbOK) == JSONPatchTenant(t, bits, dbOK)

NextCreate ==
    \/ \E t \in TenantIDs, bits \in RequestBits, addOK \in BOOLEAN, getOK \in BOOLEAN :
            CreateTenant(t, bits, addOK, getOK)
    \/ \E t \in TenantIDs, bits \in RequestBits : PatchTenant(t, bits, TRUE)
    \/ \E t \in TenantIDs : DeleteTenant(t, TRUE)
    \/ \E i \in InstanceIDs, t \in TenantIDs :
            AddInstance(i, t, NoID, Pending, FALSE, 2, "w1", TRUE)

SpecCreate == Init /\ [][NextCreate]_vars

\* C23: every cached tenant's SubnetBits is in 4..30.
C23_SubnetBitsInRange ==
    \A t \in DOMAIN tenants :
        tenants[t].SubnetBits >= 4 /\ tenants[t].SubnetBits <= 30

\* ------------------------------------------------------------------------
\* Images
\* ------------------------------------------------------------------------

ImageIDs == {"m1", "m2"}

\* The names callers give to images: a plain name and the id of an image.
ImageNames == {"a", "m1"}

\* types.Private, types.Public, types.Internal
Visibilities == {"private", "public", "internal"}

\* ResolveImage(tenantID, name) on the tenants table tn: the first image
\* whose Name or ID is name among the tenant's images, then the public
\* images, then the internal images; an empty tenantID skips the tenant.
ResolveImage(tn, t, name) ==
    LET scope == (IF t # NoID THEN tn[t].images ELSE << >>)
                    \o publicImages \o internalImages
        NameOf(id) == IF id \in DOMAIN images THEN images[id].Name ELSE NoID
        hits == {k \in DOMAIN scope : NameOf(scope[k]) = name \/ scope[k] = name}
    IN  IF t # NoID /\ t \notin DOMAIN tn THEN [id |-> NoID, err |-> "TenantNotFound"]
        ELSE IF hits = {} THEN [id |-> NoID, err |-> "NoImage"]
        ELSE [id |-> scope[CHOOSE k \in hits : \A j \in hits : k <= j], err |-> ""]

\* AddImage: refuse a cached id, a name and an id that ResolveImage finds
\* for the image's tenant; persist; append the id to the tenant's images
\* when the image has a tenant; insert into images; append to publicImages
\* or internalImages by visibility.
AddImage(id, t, name, vis, dbOK) ==
    LET byName == ResolveImage(tenants, t, name)
        byID == ResolveImage(tenants, t, id)
    IN
    /\ ~panicked
    /\ IF id \in DOMAIN images \/ byName.err = ""
       THEN /\ last' = Failed("AddImage", id, "AlreadyExists")
            /\ UNCHANGED <<tenants, imageVars>>
       ELSE IF byName.err # "NoImage"
       THEN /\ last' = Failed("AddImage", id, byName.err)
            /\ UNCHANGED <<tenants, imageVars>>
       ELSE IF byID.err = ""
       THEN /\ last' = Failed("AddImage", id, "AlreadyExists")
            /\ UNCHANGED <<tenants, imageVars>>
       ELSE IF ~dbOK
       THEN /\ last' = Failed("AddImage", id, "db")
            /\ UNCHANGED <<tenants, imageVars>>
       ELSE /\ tenants' = IF t # NoID
                          THEN [tenants EXCEPT ![t].images = Append(@, id)]
                          ELSE tenants
            /\ images' = MapPut(images, id, [TenantID |-> t, Name |-> name,
                                             Visibility |-> vis])
            /\ publicImages' = IF vis = "public" THEN Append(publicImages, id)
                               ELSE publicImages
            /\ internalImages' = IF vis = "internal" THEN Append(internalImages, id)
                                 ELSE internalImages
            /\ dbImages' = dbImages \cup {id}
            /\ last' = Returned("AddImage", id, FALSE)
    /\ UNCHANGED <<dbTenants, instVars, attVars, poolVars, dbFailures, ipVars, lockVars,
                   usageVars, workloadVars, panicked>>

\* UpdateImage: refuse an id that is not cached and a change of tenant or
\* visibility; when the name changes, refuse a name ResolveImage finds for
\* the image's tenant; persist; replace the image in images.
UpdateImage(id, t, name, vis, dbOK) ==
    LET byName == ResolveImage(tenants, t, name)
    IN
    /\ ~panicked
    /\ IF id \notin DOMAIN images
       THEN last' = Failed("UpdateImage", id, "NoImage")
       ELSE IF images[id].TenantID # t \/ images[id].Visibility # vis
       THEN last' = Failed("UpdateImage", id, "NotPermitted")
       ELSE IF images[id].Name # name /\ byName.err = ""
       THEN last' = Failed("UpdateImage", id, "AlreadyExists")
       ELSE IF images[id].Name # name /\ byName.err # "NoImage"
       THEN last' = Failed("UpdateImage", id, byName.err)
       ELSE IF ~dbOK
       THEN last' = Failed("UpdateImage", id, "db")
       ELSE last' = Returned("UpdateImage", id, FALSE)
    /\ images' = IF last'.err THEN images
                 ELSE MapPut(images, id, [TenantID |-> t, Name |-> name, Visibility |-> vis])
    /\ UNCHANGED <<tenants, dbTenants, instVars, attVars, poolVars, dbFailures, ipVars,
                   lockVars, usageVars, workloadVars, publicImages, internalImages,
                   dbImages, panicked>>

\* DeleteImage: refuse an id that is not cached and an image whose tenant
\* is not cached; cut the first occurrence of the id out of the tenant's
\* images and out of internalImages or publicImages by visibility; delete
\* from images.  The body makes no call of the persistent store.
DeleteImage(id) ==
    LET CutFirst(s) ==
            IF \E k \in DOMAIN s : s[k] = id
            THEN RemoveAt(s, CHOOSE k \in DOMAIN s :
                                /\ s[k] = id
                                /\ \A j \in 1..(k - 1) : s[j] # id)
            ELSE s
    IN  /\ ~panicked
        /\ IF id \notin DOMAIN images
           THEN /\ last' = Failed("DeleteImage", id, "NoImage")
                /\ UNCHANGED <<tenants, images, publicImages, internalImages>>
           ELSE IF images[id].TenantID # NoID /\ images[id].TenantID \notin DOMAIN tenants
           THEN /\ last' = Failed("DeleteImage", id, "TenantNotFound")
                /\ UNCHANGED <<tenants, images, publicImages, internalImages>>
           ELSE /\ tenants' = IF images[id].TenantID # NoID
                              THEN [tenants EXCEPT ![images[id].TenantID].images = CutFirst(@)]
                              ELSE tenants
                /\ internalImages' = IF images[id].Visibility = "internal"
                                     THEN CutFirst(internalImages) ELSE internalImages
                /\ publicImages' = IF images[id].Visibility = "public"
                                   THEN CutFirst(publicImages) ELSE publicImages
                /\ images' = MapDelete(images, id)
                /\ last' = Returned("DeleteImage", id, FALSE)
        /\ UNCHANGED <<dbTenants, instVars, attVars, poolVars, dbFailures, ipVars, lockVars,
                       usageVars, workloadVars, dbImages, panicked>>

NextImage ==
    \/ \E id \in ImageIDs, t \in TenantIDs \cup {NoID}, name \in ImageNames,
          vis \in Visibilities, dbOK \in BOOLEAN :
            AddImage(id, t, name, vis, dbOK)
    \/ \E id \in ImageIDs, t \in TenantIDs \cup {NoID}, name \in ImageNames,
          vis \in Visibilities, dbOK \in BOOLEAN :
            UpdateImage(id, t, name, vis, dbOK)
    \/ \E id \in ImageIDs : DeleteImage(id)

SpecImage == Init /\ [][NextImage]_vars

\* C21: for every tenant and every string, at most one image among the
\* tenant's images, the public images and the internal images has that
\* string as its Name or its ID.
C21_NoImageCollision ==
    \A t \in DOMAIN tenants : \A s \in ImageNames \cup ImageIDs :
        Cardinality({id \in Range(tenants[t].images) \cup Range(publicImages)
                                \cup Range(internalImages) :
                        images[id].Name = s \/ id = s}) <= 1

\* ------------------------------------------------------------------------
\* Datastore.Init
\* ------------------------------------------------------------------------

\* Most image rows and most workload rows the store returns at start.
MaxImageRows == 2
MaxWorkloadRows == 1

\* The rows db.getImages and db.getWorkloads return: one row for an id,
\* of no tenant or of the tenant "t1".
StoredRows(ids, n) ==
    {rows \in SeqsUpTo([ID : ids, TenantID : {NoID, "t1"}, Public : BOOLEAN], n) :
        \A j \in DOMAIN rows : \A k \in DOMAIN rows : rows[j].ID = rows[k].ID => j = k}

\* The loop of initImages on s = [tn, images, public, stopped]: every row
\* is stored in images and, when public, appended to publicImages before
\* its tenant is looked up; a row whose tenant is not loaded ends the loop
\* with errors.Wrapf(err, ...), where err is the nil error of db.getImages.
RECURSIVE initImages(_, _)
initImages(rows, s) ==
    IF rows = << >> THEN s
    ELSE LET i == Head(rows)
             s1 == [s EXCEPT
                    !.images = MapPut(@, i.ID,
                        [TenantID |-> i.TenantID, Name |-> "a",
                         Visibility |-> IF i.Public THEN "public" ELSE "private"]),
                    !.public = IF i.Public THEN Append(@, i.ID) ELSE @]
         IN  IF i.TenantID = NoID THEN initImages(Tail(rows), s1)
             ELSE IF i.TenantID \notin DOMAIN s.tn THEN [s1 EXCEPT !.stopped = TRUE]
             ELSE initImages(Tail(rows),
                             [s1 EXCEPT !.tn[i.TenantID].images = Append(@, i.ID)])

\* The loop of initWorkloads on s = [tn, workloads, public, stopped], which
\* ends in the same way on a row whose tenant is not loaded.
RECURSIVE initWorkloads(_, _)
initWorkloads(rows, s) ==
    IF rows = << >> THEN s
    ELSE LET wl == Head(rows)
             s1 == [s EXCEPT
                    !.workloads = MapPut(@, wl.ID,
                        [TenantID |-> wl.TenantID, Public |-> wl.Public]),
                    !.public = IF wl.Public THEN Append(@, wl.ID) ELSE @]
         IN  IF wl.TenantID = NoID THEN initWorkloads(Tail(rows), s1)
             ELSE IF wl.TenantID \notin DOMAIN s.tn THEN [s1 EXCEPT !.stopped = TRUE]
             ELSE initWorkloads(Tail(rows),
                                [s1 EXCEPT !.tn[wl.TenantID].workloads = Append(@, wl.ID)])

\* Datastore.Init on a store that holds tenants, images and workloads and
\* no rows of the other tables: every cache table is made anew, the
\* tenants are loaded, then the images and the workloads; an error of
\* db.getImages or db.getWorkloads ends the call.  The rows the store
\* returned are kept with the result.
DatastoreInit(imgs, wls, imgOK, wlOK) ==
    LET tn0 == [t \in DOMAIN dbTenants |-> NewTenant(dbTenants[t])]
        si == IF imgOK
              THEN initImages(imgs, [tn |-> tn0, images |-> << >>, public |-> << >>,
                                     stopped |-> FALSE])
              ELSE [tn |-> tn0, images |-> << >>, public |-> << >>, stopped |-> FALSE]
        sw == IF imgOK /\ wlOK
              THEN initWorkloads(wls, [tn |-> si.tn, workloads |-> << >>,
                                       public |-> << >>, stopped |-> FALSE])
              ELSE [tn |-> si.tn, workloads |-> << >>, public |-> << >>,
                    stopped |-> FALSE]
    IN
    /\ ~panicked
    /\ tenants' = sw.tn
    /\ images' = si.images
    /\ publicImages' = si.public
    /\ internalImages' = << >>
    /\ dbImages' = {imgs[k].ID : k \in DOMAIN imgs}
    /\ workloads' = sw.workloads
    /\ publicWorkloads' = sw.public
    /\ dbWorkloads' = {wls[k].ID : k \in DOMAIN wls}
    /\ instances' = << >>
    /\ instanceLastStat' = << >>
    /\ nodes' = << >>
    /\ nodeLastStat' = << >>
    /\ tenantUsage' = << >>
    /\ blockDevices' = << >>
    /\ attachments' = << >>
    /\ instanceVolumes' = << >>
    /\ pools' = << >>
    /\ externalSubnets' = {}
    /\ externalIPs' = {}
    /\ mappedIPs' = << >>
    /\ last' = [op |-> "DatastoreInit", arg |-> <<imgs, wls>>, err |-> ~(imgOK /\ wlOK)]
    /\ UNCHANGED <<dbTenants, everAdded, nextAttachment, dbAttachments, dbFailures, ipVars,
                   lockVars, now, panicked>>

\* The store of the start specification holds the tenant "t1" or no tenant,
\* image rows and rows of the workload "w1".
NextBoot ==
    \/ AddTenant("t1", 29, TRUE, TRUE)
    \/ DeleteTenant("t1", TRUE)
    \/ \E imgs \in StoredRows(ImageIDs, MaxImageRows),
          wls \in StoredRows({"w1"}, MaxWorkloadRows),
          imgOK \in BOOLEAN, wlOK \in BOOLEAN :
            DatastoreInit(imgs, wls, imgOK, wlOK)

SpecBoot == Init /\ [][NextBoot]_vars

\* C29: when the store returned an image or a workload whose tenant id
\* names no loaded tenant, Init has failed.
C29_InitRejectsInconsistent ==
    (/\ last.op = "DatastoreInit"
     /\ \E r \in Range(last.arg[1]) \cup Range(last.arg[2]) :
            r.TenantID # NoID /\ r.TenantID \notin DOMAIN tenants) =>
        last.err

\* ------------------------------------------------------------------------
\* Failed writes of MapExternalIP
\* ------------------------------------------------------------------------

\* C31: a MapExternalIP call that returns an error of the persistent store
\* leaves mappedIPs and the pools as they were.
C31_FailedMapLeavesCache ==
    [][(/\ last'.op = "MapExternalIP"
        /\ last'.err
        /\ last'.kind = "db") =>
            /\ mappedIPs' = mappedIPs
            /\ pools' = pools]_vars

\* ------------------------------------------------------------------------
\* Tenant lookup after the persistent write
\* ------------------------------------------------------------------------

\* C32: after an AddWorkload call that returned the tenant-not-found error
\* the workload is neither in the persistent store nor in the workloads
\* table nor in the list of public workloads.
C32_NoTenantCompensated ==
    (/\ last.op = "AddWorkload"
     /\ last.err
     /\ last.kind = "NoTenant") =>
        /\ last.arg \notin dbWorkloads
        /\ last.arg \notin DOMAIN workloads
        /\ last.arg \notin Range(publicWorkloads)

\* ------------------------------------------------------------------------
\* DeleteImage and the persistent store
\* ------------------------------------------------------------------------

\* C33: after a successful DeleteImage the image is in no cache table and
\* not in the persistent store, and the images table and the persistent
\* store hold the same images.
C33_DeleteImageFromStore ==
    (last.op = "DeleteImage" /\ ~last.err) =>
        /\ last.arg \notin DOMAIN images
        /\ last.arg \notin Range(publicImages) \cup Range(internalImages)
        /\ \A t \in DOMAIN tenants : last.arg \notin Range(tenants[t].images)
        /\ last.arg \notin dbImages
        /\ DOMAIN images = dbImages

\* ------------------------------------------------------------------------
\* Sign of the usage delta
\* ------------------------------------------------------------------------

\* The latest cumulative VCPU value of a history table, zero without history.
LatestVCPU(tu, t) == IF t \in DOMAIN tu THEN tu[t][Len(tu[t])].VCPU ELSE 0

\* C34: the recorded usage of an instance is its sample clamped to zero
\* from below, and a sample that changes the recorded usage of an instance
\* of tenant t moves the tenant's latest cumulative value by the signed
\* difference of the new and the previous recorded usage.
C34_SignedDelta ==
    [][\A i \in DOMAIN instanceLastStat :
        (/\ instanceLastStat[i].TenantID \in TenantIDs
         /\ instanceLastStat'[i].VCPUUsage # instanceLastStat[i].VCPUUsage) =>
            LET t == instanceLastStat[i].TenantID
            IN  /\ instanceLastStat'[i].VCPUUsage >= 0
                /\ LatestVCPU(tenantUsage', t) =
                        LatestVCPU(tenantUsage, t)
                            + instanceLastStat'[i].VCPUUsage
                            - instanceLastStat[i].VCPUUsage]_vars

\* A sample below the previous one has lowered a tenant's cumulative value
\* in a new history entry.
C34_Witness ==
    /\ last.op = "HandleStats"
    /\ \E t \in DOMAIN tenantUsage :
        /\ Len(tenantUsage[t]) = 2
        /\ tenantUsage[t][2].VCPU < tenantUsage[t][1].VCPU

\* C34 as stated: no update of a history lowers the tenant's cumulative
\* value.
C34_NeverDecreases ==
    [][\A t \in DOMAIN tenantUsage :
        LatestVCPU(tenantUsage', t) >= LatestVCPU(tenantUsage, t)]_vars

\* ------------------------------------------------------------------------
\* GetTenantUsage
\* ------------------------------------------------------------------------

\* The start and end times of a query: the first two minutes, the two
\* minutes one usage period later, and a minute after every history.
QueryTimes == {0, 1, UsagePeriod, UsagePeriod + 1, MaxTime + 1}

\* The body of GetTenantUsage on the history h: nothing for an empty
\* history, for a history that begins after end and for one that ends
\* before start; otherwise the counters first and last count the entries
\* before start and before end, and the result is the slice h[first:last],
\* which is out of range when first is greater than last.
UsageSlice(h, start, end) ==
    LET first == Cardinality({k \in DOMAIN h : start > h[k].Timestamp})
        last1 == Cardinality({k \in DOMAIN h : end > h[k].Timestamp})
    IN  IF h = << >> THEN [panic |-> FALSE, usage |-> << >>]
        ELSE IF h[1].Timestamp > end \/ start > h[Len(h)].Timestamp
        THEN [panic |-> FALSE, usage |-> << >>]
        ELSE IF first > last1
        THEN [panic |-> TRUE, usage |-> << >>]
        ELSE [panic |-> FALSE, usage |-> SubSeq(h, first + 1, last1)]

GetTenantUsage(t, start, end) ==
    LET r == UsageSlice(IF t \in DOMAIN tenantUsage THEN tenantUsage[t] ELSE << >>,
                        start, end)
    IN  /\ ~panicked
        /\ panicked' = r.panic
        /\ last' = [op |-> "GetTenantUsage", arg |-> <<t, start, end>>, err |-> FALSE,
                    usage |-> r.usage]
        /\ UNCHANGED <<tenants, dbTenants, instVars, attVars, restVars>>

\* One instance of one tenant reports, the clock advances, and the
\* tenant's usage is queried.
NextQuery ==
    \/ AddInstance("i1", "t1", NoID, Pending, FALSE, 2, "w1", TRUE)
    \/ \E cpu \in {10, 20} : HandleStats("n1", TRUE, <<<<"i1", Running, cpu>>>>, TRUE, TRUE)
    \/ \E d \in {1, UsagePeriod} : Tick(d)
    \/ \E start \in QueryTimes, end \in QueryTimes : GetTenantUsage("t1", start, end)

SpecQuery == Init /\ [][NextQuery]_vars

\* C35: a GetTenantUsage call does not crash, and what it returns is the
\* entries of the history with start <= Timestamp < end, in history order.
C35_UsageWindowExact ==
    last.op = "GetTenantUsage" =>
        /\ ~panicked
        /\ LET h == IF last.arg[1] \in DOMAIN tenantUsage
                    THEN tenantUsage[last.arg[1]] ELSE << >>
               InWindow(u) == last.arg[2] <= u.Timestamp /\ u.Timestamp < last.arg[3]
           IN  last.usage = SelectSeq(h, InWindow)

\* ------------------------------------------------------------------------
\* Table accesses under the table locks
\* ------------------------------------------------------------------------

\* The lock steps of some facade calls together with their table accesses:
\* <<"ReadTable", l>> reads and <<"WriteTable", l>> mutates the table that
\* the lock l guards.  An Instance record belongs to the instances table
\* whichever map it is reached through.
FacadeAccess ==
    [GetAllTenants |-> <<<<"ReadTable", "tenants">>>>,
     GetInstance |-> Read("instances", <<<<"ReadTable", "instances">>>>),
     AddTenant |-> Write("tenants", <<<<"WriteTable", "tenants">>>>),
     ResolveImage |->
        Read("tenants", <<<<"ReadTable", "tenants">>, <<"ReadTable", "images">>>>),
     UpdateImage |->
        Write("images",
              <<<<"ReadTable", "images">>>>
                \o Read("tenants", <<<<"ReadTable", "tenants">>, <<"ReadTable", "images">>>>)
                \o <<<<"WriteTable", "images">>>>),
     AllocateTenantIPPool |->
        Read("tenants", <<<<"ReadTable", "tenants">>>>)
            \o Write("tenants", <<<<"WriteTable", "tenants">>>>)
            \o <<<<"ReadTable", "tenants">>>> \o activateSubnetsLocks,
     DeleteNode |->
        Write("nodes", <<<<"ReadTable", "nodes">>, <<"WriteTable", "instances">>,
                         <<"WriteTable", "nodes">>>>)
            \o Write("nodeLastStat", <<<<"WriteTable", "nodeLastStat">>>>)]

\* A goroutine enters one of these calls.
StartAccess(c, op) ==
    /\ prog[c] = NoProg
    /\ prog' = [prog EXCEPT ![c] = [op |-> op, steps |-> FacadeAccess[op]]]
    /\ UNCHANGED <<lockW, lockR>>

\* The caller reads or mutates a table.
AccessStep(c) ==
    /\ AtStep(c, "ReadTable") \/ AtStep(c, "WriteTable")
    /\ prog' = [prog EXCEPT ![c] = Advance(c)]
    /\ UNCHANGED <<lockW, lockR>>

NextAccess ==
    \/ \E c \in Procs, op \in DOMAIN FacadeAccess :
            StartAccess(c, op) /\ UNCHANGED tableVars
    \/ \E c \in Procs : LockStep(c) /\ UNCHANGED tableVars
    \/ \E c \in Procs : UnlockStep(c) /\ UNCHANGED tableVars
    \/ \E c \in Procs : CallStep(c) /\ UNCHANGED tableVars
    \/ \E c \in Procs : AccessStep(c) /\ UNCHANGED tableVars

SpecAccess == Init /\ [][NextAccess]_vars

\* C36: a caller about to read a table holds the table's lock as a reader
\* or as the writer, and a caller about to mutate a table holds the table's
\* lock as the writer.
C36_AccessUnderLock ==
    \A c \in Procs :
        /\ AtStep(c, "ReadTable") => WantedLock(c) \in HeldBy(c)
        /\ AtStep(c, "WriteTable") => lockW[WantedLock(c)] = c

\* ------------------------------------------------------------------------
\* Errors of the cascaded steps of deleteInstance
\* ------------------------------------------------------------------------

\* C37: a DeleteInstance call that removes a non-CNCI instance whose
\* ReleaseTenantIP fails (the tenant is known neither to the cache nor to
\* the persistent store, or the address does not parse) returns an error,
\* and the instance has no attachment left.
C37_ReleaseErrorSurfaced ==
    [][\A i \in DOMAIN instances :
        (/\ last'.op = "DeleteInstance" /\ last'.arg = i
         /\ i \notin DOMAIN instances'
         /\ ~instances[i].CNCI
         /\ ReleaseRejected(UnlinkTenantInstance(tenants, instances[i].TenantID, i),
                            instances[i].TenantID, instances[i].IPAddress)) =>
            /\ last'.err
            /\ \A k \in DOMAIN instanceVolumes' : k[1] # i]_vars

\* ------------------------------------------------------------------------
\* Tenant of the last stat
\* ------------------------------------------------------------------------

\* C38: every instance of the instances table has a last stat, and the
\* last stat carries the instance's tenant.
C38_LastStatKeepsTenant ==
    \A i \in DOMAIN instances :
        /\ i \in DOMAIN instanceLastStat
        /\ instanceLastStat[i].TenantID = instances[i].TenantID

\* ------------------------------------------------------------------------
\* Concurrent deletions of one instance
\* ------------------------------------------------------------------------

\* DeleteInstance in the two steps between which another goroutine can run:
\* GetInstance, which looks the instance up under the instances read lock,
\* and deleteInstance, which looks it up again under the write lock.
DeleteInstanceSteps(i) == <<<<"GetInstance", i>>, <<"deleteInstance", i>>>>

\* A goroutine enters DeleteInstance(i).
StartDelete(c, i) ==
    /\ ~panicked
    /\ prog[c] = NoProg
    /\ prog' = [prog EXCEPT ![c] = [op |-> "DeleteInstance", steps |-> DeleteInstanceSteps(i)]]
    /\ UNCHANGED <<lockW, lockR, tableVars>>

\* GetInstance: ErrInstanceNotFound ends the call.
GetInstanceStep(c) ==
    /\ ~panicked
    /\ AtStep(c, "GetInstance")
    /\ IF WantedLock(c) \in DOMAIN instances
       THEN /\ prog' = [prog EXCEPT ![c] = Advance(c)]
            /\ UNCHANGED last
       ELSE /\ prog' = [prog EXCEPT ![c] = NoProg]
            /\ last' = Returned("DeleteInstance", WantedLock(c), TRUE)
    /\ UNCHANGED <<lockW, lockR, tenants, dbTenants, instVars, attVars, poolVars, dbFailures,
                   ipVars, usageVars, workloadVars, imageVars, panicked>>

\* deleteInstance and the rest of the call.  The instance is read from
\* ds.instances without a check: when another call has removed it the
\* pointer is nil, and reading its TenantID is a nil dereference.
DeleteInstanceStep(c, db1OK) ==
    /\ AtStep(c, "deleteInstance")
    /\ prog' = [prog EXCEPT ![c] = NoProg]
    /\ IF db1OK /\ WantedLock(c) \notin DOMAIN instances
       THEN /\ ~panicked
            /\ panicked' = TRUE
            /\ UNCHANGED <<tenants, instVars, attVars, last>>
       ELSE DeleteInstanceTables(WantedLock(c), db1OK, TRUE, TRUE, {}, {}, TRUE)
    /\ UNCHANGED <<lockW, lockR, dbTenants, poolVars, dbFailures, ipVars, usageVars,
                   workloadVars, imageVars>>

\* The instances are on no node, so that deleteInstance looks no node up.
NextDelete ==
    \/ \E i \in InstanceIDs, t \in TenantIDs :
            AddInstance(i, t, NoID, Pending, FALSE, 2, "w1", TRUE)
    \/ \E t \in TenantIDs : AddTenant(t, 29, TRUE, TRUE)
    \/ \E c \in Procs, i \in InstanceIDs : StartDelete(c, i)
    \/ \E c \in Procs : GetInstanceStep(c)
    \/ \E c \in Procs, db1OK \in BOOLEAN : DeleteInstanceStep(c, db1OK)

SpecDelete == Init /\ [][NextDelete]_vars

\* C39: no interleaving of DeleteInstance calls on instances without a
\* node reaches the crash.
C39_NoCrashOnDoubleDelete == ~panicked

\* ------------------------------------------------------------------------
\* Addresses MapExternalIP takes from a subnet
\* ------------------------------------------------------------------------

\* Pools of subnets, with or without the individual address that lies
\* outside every subnet, and the mappings of one instance.
NextMap ==
    \/ AddInstance("i1", "t1", NoID, Pending, FALSE, 2, "w1", TRUE)
    \/ \E p \in PoolIDs \ DOMAIN pools :
       \E subnets \in SeqsUpTo(CIDRs, MaxPoolItems), ips \in SeqsUpTo({8}, 1) :
            StoreAnswers(TRUE) /\ AddPool(p, MakePool(subnets, ips), TRUE)
    \/ \E p \in PoolIDs : StoreAnswers(TRUE) /\ DeletePool(p, TRUE)
    \/ \E p \in PoolIDs : StoreAnswers(TRUE) /\ MapExternalIP(p, "i1", TRUE, TRUE)
    \/ \E a \in DOMAIN mappedIPs : StoreAnswers(TRUE) /\ UnMapExternalIP(a, TRUE, TRUE)

SpecMap == Init /\ [][NextMap]_vars

\* C40: a mapped address that lies in a subnet of its pool is neither the
\* network address nor the broadcast address of the subnet, and the mapped
\* addresses of a subnet are no more than its usable addresses.
C40_UsableHostsOnly ==
    \A p \in DOMAIN pools : \A s \in Range(pools[p].Subnets) :
        LET ipNet == ParseCIDR(s)
            mapped == {a \in DOMAIN mappedIPs :
                        mappedIPs[a].PoolID = p /\ Contains(ipNet, a)}
        IN  /\ \A a \in mapped :
                    a # ipNet.IP /\ a # ipNet.IP + Pow2(32 - ipNet.ones) - 1
            /\ Cardinality(mapped) <= SubnetIPs(s)

====
